---- MODULE Spec2Model ----
(***************************************************************************)
(* Model of the movie recommender's ingestion pipeline                     *)
(* (projects/03-ai-movie-recommender): the vector index manager            *)
(* (src/vector_store.py, AnimeVectorStore), the recommendation engine      *)
(* (src/recommender.py, AnimeRecommender), the pipeline orchestrator       *)
(* (pipeline/pipeline.py, AnimeIngestionPipeline) and the corpus builder   *)
(* (data/data_loader.py, AnimeDataLoader).                                 *)
(*                                                                         *)
(* The durable state is the raw data file, the corpus export               *)
(* (combined_info.csv) and the persisted index directory (chroma_db).      *)
(* A corpus is the sequence of the character lengths of its documents; an  *)
(* index entry is one chunk of one document, tagged with the provider that *)
(* embedded it and with a tag that tells entries of successive builds      *)
(* apart (Chroma gives every inserted chunk a fresh identifier).           *)
(***************************************************************************)
EXTENDS Integers, Sequences, FiniteSets, TLC

VARIABLES
    OPENAI_API_KEY,   \* config.OPENAI_API_KEY: TRUE iff the credential is present
    rawData,          \* the raw data file: NoFile or the corpus its cleaning yields
                      \* (under DLSpec: the raw table itself, row by row)
    corpusCsv,        \* combined_info.csv: NoFile or a corpus
    persistDir,       \* the persist directory: [state, entries]
    embedderWorks,    \* the embedding capability answers
    generatorWorks,   \* the generation capability answers
    manager,          \* a stand-alone AnimeVectorStore, or Null
    pipeline_status,  \* AnimeIngestionPipeline.pipeline_status
    data_loader,      \* AnimeIngestionPipeline.data_loader is not None
    vector_store,     \* AnimeIngestionPipeline.vector_store: an AnimeVectorStore or Null
    recommender,      \* AnimeIngestionPipeline.recommender: an AnimeRecommender or Null
    pc,               \* position of run_complete_pipeline: "idle" or the stage to run next
    results,          \* run_complete_pipeline's local results (the last returned when idle)
    force_rebuild,    \* run_complete_pipeline's argument
    uuid,             \* the identifier tag Chroma gives the entries of the next insertion
    loader,           \* a stand-alone AnimeDataLoader: [df, cleaned_df, pc]
    lastOp            \* what the last step did (observation only)

vars == <<OPENAI_API_KEY, rawData, corpusCsv, persistDir, embedderWorks,
          generatorWorks, manager, pipeline_status, data_loader, vector_store,
          recommender, pc, results, force_rebuild, uuid, loader, lastOp>>

diskVars == <<rawData, corpusCsv, persistDir>>
pipelineVars == <<pipeline_status, data_loader, vector_store, recommender, pc,
                  results, force_rebuild>>

None == "None"
\* Python's None, for a variable that otherwise holds an object
Null == [null |-> TRUE]
\* what a call hands back when it hands back nothing
NoOut == [none |-> TRUE]
\* a file that is not there, and a file holding the corpus c
NoFile == [exists |-> FALSE, docs |-> <<>>]
File(c) == [exists |-> TRUE, docs |-> c]

\* ---------------------------------------------------------------- bounds
MaxDocs == 2
DocLens == {600, 1800}
Corpora == UNION {[1..n -> DocLens] : n \in 1..MaxDocs}
\* the raw data the pipeline is run over: MaxDocs documents, all short or the
\* first one longer than a chunk
RawCorpora == {[i \in 1..MaxDocs |-> 600],
               [i \in 1..MaxDocs |-> IF i = 1 THEN 1800 ELSE 600]}

\* ------------------------------------------------------ program constants
chunk_size == 1000
chunk_overlap == 200
EmbeddingModels == {"openai", "huggingface", "unsupported"}

\* ------------------------------------------------------------ the index
\* csv_hash is the content of csv_hash.txt in the directory, NoHash when there is none
NoHash == <<>>
EmptyDir == [state |-> "empty", entries |-> {}, csv_hash |-> NoHash]
AbsentDir == [state |-> "absent", entries |-> {}, csv_hash |-> NoHash]
CorruptDir == [state |-> "corrupt", entries |-> {}, csv_hash |-> NoHash]

\* _get_csv_hash: the MD5 digest of the table's text, here the content itself
\* (equal digests iff equal content)
_get_csv_hash(csv) == <<"md5", csv.docs>>

\* _get_stored_hash: the content of csv_hash.txt, or NoHash for None
_get_stored_hash(dir) == dir.csv_hash

\* os.makedirs(persist_directory, exist_ok=True)
makedirs(dir) == IF dir.state = "absent" THEN EmptyDir ELSE dir

\* shutil.rmtree(persist_directory); os.makedirs(persist_directory, exist_ok=True)
rmtree_makedirs(dir) == EmptyDir

\* the identifier tag after a build: an insertion uses the tag up, so that no
\* two insertions give an entry the same identifier
NextUuid(o) == IF o.embedCalls > 0 THEN 1 - uuid ELSE uuid

\* AnimeVectorStore.__init__ (the fields; the directory is created by the caller action)
NewManager(model) ==
    [embedding_model |-> model, embeddings |-> None, vector_store |-> None]

\* faulty variant of initialize_embeddings: no fallback, OpenAI whatever the credential
AlwaysOpenAI(m) ==
    [m |-> [m EXCEPT !.embeddings = "openai"], raised |-> FALSE]

\* initialize_embeddings: [m |-> the manager afterwards, raised |-> it raised]
initialize_embeddings(m) ==
    LET fallback == m.embedding_model = "openai" /\ ~OPENAI_API_KEY
        model1 == IF fallback THEN "huggingface" ELSE m.embedding_model
        emb1 == IF m.embedding_model = "openai" /\ OPENAI_API_KEY
                THEN "openai" ELSE m.embeddings
        emb2 == IF model1 = "huggingface" THEN "huggingface" ELSE emb1
    IN  [m |-> [m EXCEPT !.embedding_model = model1, !.embeddings = emb2],
         raised |-> emb2 = None]

\* faulty variant of create_documents: the rows are numbered from 1
DocumentsNumberedFromOne(csv) ==
    [i \in 1..Len(csv.docs) |-> [anime_id |-> i, len |-> csv.docs[i]]]

\* create_documents: one document per row, anime_id the 0-based row position
create_documents(csv) ==
    [i \in 1..Len(csv.docs) |-> [anime_id |-> i - 1, len |-> csv.docs[i]]]

\* windows of chunk_size characters, each overlapping the previous by chunk_overlap
NumChunks(len) ==
    IF len <= chunk_size THEN 1
    ELSE 1 + ((len - chunk_size) + (chunk_size - chunk_overlap) - 1)
                 \div (chunk_size - chunk_overlap)

\* chunk_documents: every chunk keeps the metadata of its document
chunk_documents(docs) ==
    UNION {{[anime_id |-> docs[i].anime_id, chunk |-> c] :
               c \in 1..NumChunks(docs[i].len)} : i \in 1..Len(docs)}

\* create_vector_store: Chroma.from_documents opens (or creates) the collection in
\* the persist directory and adds one embedded entry per chunk
create_vector_store(m, dir, chunks) ==
    LET ie == IF m.embeddings = None THEN initialize_embeddings(m)
              ELSE [m |-> m, raised |-> FALSE]
        opened == [dir EXCEPT !.state = "valid"]
        added == {[tag |-> uuid, anime_id |-> c.anime_id, chunk |-> c.chunk,
                   provider |-> ie.m.embeddings] : c \in chunks}
    IN  IF ie.raised
        THEN [m |-> ie.m, dir |-> dir, raised |-> TRUE, error |-> "ValueError",
              embedCalls |-> 0]
        ELSE IF dir.state = "corrupt"
        THEN [m |-> ie.m, dir |-> dir, raised |-> TRUE, error |-> "ChromaError",
              embedCalls |-> 0]
        ELSE IF ~embedderWorks
        THEN [m |-> ie.m, dir |-> opened, raised |-> TRUE,
              error |-> "EmbeddingError", embedCalls |-> 0]
        ELSE [m |-> [ie.m EXCEPT !.vector_store = "chroma"],
              dir |-> [dir EXCEPT !.state = "valid", !.entries = dir.entries \cup added],
              raised |-> FALSE, error |-> None,
              embedCalls |-> Cardinality(chunks)]

\* load_existing_vector_store: [m, store |-> "chroma" or None]; never raises
load_existing_vector_store(m, dir) ==
    LET ie == IF m.embeddings = None THEN initialize_embeddings(m)
              ELSE [m |-> m, raised |-> FALSE]
    IN  IF ie.raised THEN [m |-> ie.m, store |-> None]
        ELSE IF dir.state = "valid"
        THEN [m |-> [ie.m EXCEPT !.vector_store = "chroma"], store |-> "chroma"]
        ELSE [m |-> ie.m, store |-> None]

\* the outcome record of build_vector_store
Outcome(m, dir, raised, error, reused, embedCalls, readCsv, deletedDir) ==
    [m |-> m, dir |-> dir, raised |-> raised, error |-> error, reused |-> reused,
     embedCalls |-> embedCalls, readCsv |-> readCsv, deletedDir |-> deletedDir]

\* faulty variant of Rebuild: the persist directory is not cleaned up first
RebuildKeepingDirectory(m, dir, csv) ==
    LET cv == create_vector_store(m, dir, chunk_documents(create_documents(csv)))
    IN  IF ~csv.exists
        THEN Outcome(m, dir, TRUE, "FileNotFoundError", FALSE, 0, FALSE, FALSE)
        ELSE Outcome(cv.m, cv.dir, cv.raised, cv.error, FALSE, cv.embedCalls,
                     TRUE, FALSE)

\* the build branch of build_vector_store (lines 354-375): clean up the directory,
\* read the corpus CSV, make and chunk the documents, create the vector store
Rebuild(m, dir, csv) ==
    LET deleted == dir.state # "absent"
        dir1 == IF deleted THEN rmtree_makedirs(dir) ELSE dir
        cv == create_vector_store(m, dir1, chunk_documents(create_documents(csv)))
    IN  IF ~csv.exists
        THEN Outcome(m, dir1, TRUE, "FileNotFoundError", FALSE, 0, FALSE, deleted)
        ELSE Outcome(cv.m, cv.dir, cv.raised, cv.error, FALSE, cv.embedCalls,
                     TRUE, deleted)

\* faulty variant of build_vector_store: the persisted index is never reused
AlwaysRebuild(m, dir, csv, force, incremental_update) == Rebuild(m, dir, csv)

\* faulty variant of build_vector_store: a load failure reaches the caller
LoadFailureRaises(m, dir, csv, force, incremental_update) ==
    LET ld == load_existing_vector_store(m, dir)
    IN  IF ~force /\ dir.state = "corrupt"
        THEN Outcome(ld.m, dir, TRUE, "ChromaError", FALSE, 0, FALSE, FALSE)
        ELSE IF ~force /\ ld.store # None
        THEN Outcome(ld.m, dir, FALSE, None, TRUE, 0, FALSE, FALSE)
        ELSE Rebuild(IF force THEN m ELSE ld.m, dir, csv)

\* build_vector_store(force_rebuild, incremental_update).  _incremental_update is
\* called at line 344 and defined nowhere: the call raises AttributeError.
build_vector_store(m, dir, csv, force, incremental_update) ==
    LET ld == load_existing_vector_store(m, dir)
    IN  IF ~force /\ ld.store # None
        THEN IF incremental_update
             THEN Outcome(ld.m, dir, TRUE, "AttributeError", FALSE, 0, FALSE, FALSE)
             ELSE Outcome(ld.m, dir, FALSE, None, TRUE, 0, FALSE, FALSE)
        ELSE Rebuild(IF force THEN m ELSE ld.m, dir, csv)

\* get_collection_info()['document_count']: collection.count()
document_count(dir) == Cardinality(dir.entries)

\* the metadata of the collection a directory holds: Chroma.from_documents is
\* given no collection_metadata, so the collection has none
CollectionMetadata(dir) == <<>>

ErrNoCollection == "Vector store not initialized"
ErrInfo == "ChromaError"
\* Chroma's default collection name, and self.persist_directory
CollectionName == "langchain"
PersistDirectory == "chroma_db"

\* get_collection_info(): [raised, error, info]
get_collection_info(m, dir) ==
    LET metadata == CollectionMetadata(dir)
    IN  IF m.vector_store = None
        THEN [raised |-> TRUE, error |-> ErrNoCollection, info |-> NoOut]
        ELSE IF dir.state # "valid"
        THEN [raised |-> TRUE, error |-> ErrInfo, info |-> NoOut]
        ELSE [raised |-> FALSE, error |-> None,
              info |-> [collection_name |-> CollectionName,
                        document_count |-> document_count(dir),
                        embedding_dimension |->
                            IF "hnsw:space" \in DOMAIN metadata
                            THEN metadata["hnsw:space"] ELSE "unknown",
                        persist_directory |-> PersistDirectory]]

\* ------------------------------------------------------------ the search
\* the user queries, told apart by what they are similar to
Queries == {"q1", "q2"}
\* the numbers of results asked for
Ks == {1, 3}

\* the similarity of an entry to a query: a query is about a document and,
\* within it, its later chunks; to q2 the first two documents are the same
\* (entries of equal similarity)
Similarity(q, e) ==
    IF q = "q2" /\ e.anime_id <= 1 THEN e.chunk ELSE 10 * e.anime_id + e.chunk

RECURSIVE ChromaSearch(_, _, _)
\* Chroma's similarity_search(query, k) over the entries of a collection: the
\* results it may return, the most similar entry first, as many as there are
\* up to k; entries of equal similarity come in either order
ChromaSearch(entries, q, k) ==
    IF k <= 0 \/ entries = {} THEN {<<>>}
    ELSE LET best == {e \in entries :
                         \A f \in entries : Similarity(q, f) <= Similarity(q, e)}
         IN  UNION {{<<e>> \o s : s \in ChromaSearch(entries \ {e}, q, k - 1)} :
                       e \in best}

\* the ways a search through the Chroma handle of manager m (embed the query,
\* search the collection the directory holds now) can end: TRUE it returns,
\* FALSE it raises.  Searching vectors another provider made is left open.
SearchOutcomes(m, dir) ==
    LET fine == embedderWorks /\ dir.state = "valid"
        mixed == \E e \in dir.entries : e.provider # m.embeddings
    IN  {ok \in BOOLEAN : (ok => fine) /\ (~ok => (~fine \/ mixed))}

ErrNotReady == "Vector store not initialized. Run build_vector_store() first."
ErrSearch == "search failed"

SearchRaised(error) == [raised |-> TRUE, error |-> error, hits |-> <<>>]
SearchReturned(hits) == [raised |-> FALSE, error |-> None, hits |-> hits]

\* faulty variant of similarity_search: the handle is not checked, and the
\* search through the handle that is not there raises
SearchWithoutGuard(m, dir, q, k) ==
    IF m.vector_store = None THEN {SearchRaised("AttributeError")}
    ELSE UNION {IF ok THEN {SearchReturned(h) : h \in ChromaSearch(dir.entries, q, k)}
                ELSE {SearchRaised(ErrSearch)} : ok \in SearchOutcomes(m, dir)}

\* faulty variant of similarity_search: k is not handed on, Chroma's default is used
SearchDefaultK(m, dir, q, k) ==
    IF m.vector_store = None THEN {SearchRaised(ErrNotReady)}
    ELSE UNION {IF ok THEN {SearchReturned(h) : h \in ChromaSearch(dir.entries, q, 4)}
                ELSE {SearchRaised(ErrSearch)} : ok \in SearchOutcomes(m, dir)}

\* similarity_search(query, k): the ways the call can end
similarity_search(m, dir, q, k) ==
    IF m.vector_store = None THEN {SearchRaised(ErrNotReady)}
    ELSE UNION {IF ok THEN {SearchReturned(h) : h \in ChromaSearch(dir.entries, q, k)}
                ELSE {SearchRaised(ErrSearch)} : ok \in SearchOutcomes(m, dir)}

\* ------------------------------------------------------- observations
\* what a step that called build_vector_store did, for the step's caller op
BuildOp(op, force, incremental_update, m, dir, csv, o) ==
    [op |-> op, force |-> force, incremental_update |-> incremental_update,
     raised |-> o.raised, error |-> o.error, reused |-> o.reused,
     embedCalls |-> o.embedCalls, readCsv |-> o.readCsv,
     deletedDir |-> o.deletedDir, dirBefore |-> dir.state,
     dirUnchanged |-> o.dir = dir,
     keptEntry |-> o.dir.entries \cap dir.entries # {},
     csvDocs |-> IF csv.exists THEN Len(csv.docs) ELSE -1,
     modelBefore |-> m.embedding_model,
     hashBefore |-> _get_stored_hash(dir), out |-> NoOut]

\* a step that called no build_vector_store
PlainOp(op, raised, error) ==
    [op |-> op, force |-> FALSE, incremental_update |-> FALSE,
     raised |-> raised, error |-> error, reused |-> FALSE,
     embedCalls |-> 0, readCsv |-> FALSE, deletedDir |-> FALSE,
     dirBefore |-> None, dirUnchanged |-> TRUE, keptEntry |-> FALSE,
     csvDocs |-> -1, modelBefore |-> None, hashBefore |-> NoHash, out |-> NoOut]

\* ------------------------------------------- the stand-alone index manager
\* AnimeVectorStore(embedding_model=model): the constructor creates the directory
ManagerNew ==
    \E model \in EmbeddingModels :
        /\ manager' = NewManager(model)
        /\ persistDir' = makedirs(persistDir)
        /\ lastOp' = PlainOp("new_manager", FALSE, None)
        /\ UNCHANGED <<OPENAI_API_KEY, loader, rawData, corpusCsv, embedderWorks,
                       generatorWorks, pipelineVars, uuid>>

\* manager.initialize_embeddings()
ManagerInitializeEmbeddings ==
    /\ manager # Null
    /\ LET ie == initialize_embeddings(manager)
       IN  /\ manager' = ie.m
           /\ lastOp' = [PlainOp("initialize_embeddings", ie.raised,
                                 IF ie.raised THEN "ValueError" ELSE None)
                         EXCEPT !.modelBefore = manager.embedding_model]
    /\ UNCHANGED <<OPENAI_API_KEY, loader, diskVars, embedderWorks, generatorWorks,
                   pipelineVars, uuid>>

\* manager.build_vector_store(force_rebuild, incremental_update)
ManagerBuild ==
    \E force \in BOOLEAN, incremental_update \in BOOLEAN :
        /\ manager # Null
        /\ \E o \in {build_vector_store(manager, persistDir, corpusCsv, force,
                                         incremental_update)} :
               /\ manager' = o.m
               /\ persistDir' = o.dir
               /\ uuid' = NextUuid(o)
               /\ lastOp' = BuildOp("build", force, incremental_update, manager,
                                    persistDir, corpusCsv, o)
        /\ UNCHANGED <<OPENAI_API_KEY, loader, rawData, corpusCsv, embedderWorks,
                       generatorWorks, pipelineVars>>

\* manager.delete_vector_store(): rmtree of the persist directory
ManagerDelete ==
    /\ manager # Null
    /\ persistDir.state # "absent"
    /\ persistDir' = AbsentDir
    /\ lastOp' = PlainOp("delete_vector_store", FALSE, None)
    /\ UNCHANGED <<OPENAI_API_KEY, loader, rawData, corpusCsv, embedderWorks,
                   generatorWorks, manager, pipelineVars, uuid>>

\* manager.similarity_search(query, k)
ManagerSearch ==
    /\ manager # Null
    /\ \E q \in Queries, k \in Ks :
         \E o \in similarity_search(manager, persistDir, q, k) :
            lastOp' = [PlainOp("similarity_search", o.raised, o.error)
                       EXCEPT !.out = [query |-> q, k |-> k, hits |-> o.hits]]
    /\ UNCHANGED <<OPENAI_API_KEY, loader, diskVars, embedderWorks, generatorWorks,
                   manager, pipelineVars, uuid>>

\* manager.get_collection_info()
ManagerInfo ==
    /\ manager # Null
    /\ \E o \in {get_collection_info(manager, persistDir)} :
          lastOp' = [PlainOp("get_collection_info", o.raised, o.error)
                     EXCEPT !.out = o.info]
    /\ UNCHANGED <<OPENAI_API_KEY, loader, diskVars, embedderWorks, generatorWorks,
                   manager, pipelineVars, uuid>>

\* ------------------------------------------------------- the environment
\* the corpus export is replaced or removed outside the program
EnvCorpus ==
    \E c \in {File(d) : d \in Corpora} \cup {NoFile} :
        /\ c # corpusCsv
        /\ corpusCsv' = c
        /\ lastOp' = PlainOp("env", FALSE, None)
        /\ UNCHANGED <<OPENAI_API_KEY, loader, rawData, persistDir, embedderWorks,
                       generatorWorks, manager, pipelineVars, uuid>>

\* the persisted index becomes unreadable
EnvCorruptIndex ==
    /\ persistDir.state = "valid"
    /\ persistDir' = CorruptDir
    /\ lastOp' = PlainOp("env", FALSE, None)
    /\ UNCHANGED <<OPENAI_API_KEY, loader, rawData, corpusCsv, embedderWorks,
                   generatorWorks, manager, pipelineVars, uuid>>

\* the embedding capability starts or stops answering
EnvEmbedder ==
    /\ embedderWorks' = ~embedderWorks
    /\ lastOp' = PlainOp("env", FALSE, None)
    /\ UNCHANGED <<OPENAI_API_KEY, loader, diskVars, generatorWorks, manager, pipelineVars, uuid>>

\* ------------------------------------------------------ the corpus builder
\* (data/data_loader.py, AnimeDataLoader) over a raw table in full detail
MaxRows == 2

\* a cell of a DataFrame: a missing value, a number, a text (its characters),
\* a category of pd.cut
NaN == [nan |-> TRUE]
Num(n) == [num |-> n]
Str(s) == [str |-> s]
Cat(label) == [cat |-> label]
IsNum(c) == "num" \in DOMAIN c
IsStr(c) == "str" \in DOMAIN c
notna(c) == "nan" \notin DOMAIN c

\* the character classes of the regular expressions of _clean_text
Digits == {"1", "8", "9"}
WordChars == {"A", "B", "U", "a", "b", "k", "n", "o", "u", "w"} \cup Digits
Whitespace == {" "}
KeptPunctuation == {"-", ".", ",", "!", "?"}
\* str.lower on one character
lower(c) == CASE c = "A" -> "a" [] c = "B" -> "b" [] c = "U" -> "u" [] OTHER -> c
\* the code point of a character, which orders Python's strings
ord(c) ==
    CASE c = " " -> 32 [] c = "!" -> 33 [] c = "(" -> 40 [] c = ")" -> 41
      [] c = "," -> 44 [] c = "-" -> 45 [] c = "." -> 46 [] c = "/" -> 47
      [] c = "1" -> 49 [] c = "8" -> 56 [] c = "9" -> 57 [] c = "?" -> 63
      [] c = "@" -> 64 [] c = "A" -> 65 [] c = "B" -> 66 [] c = "U" -> 85
      [] c = "a" -> 97 [] c = "b" -> 98 [] c = "k" -> 107 [] c = "n" -> 110
      [] c = "o" -> 111 [] c = "u" -> 117 [] c = "w" -> 119
digit(c) == ord(c) - ord("1") + 1

Unknown == <<"U", "n", "k", "n", "o", "w", "n">>
nan == <<"n", "a", "n">>

\* the raw rows a table is drawn from: an ordinary row, a row that cleans to
\* the same record, a row without a year in its title and without votes, a
\* row with every value missing, a row whose title normalizes to the empty
\* text and whose rating is not a number
RawColumns == <<"title", "genre", "rating", "votes">>
RawRows ==
    {[title |-> Str(<<"A", " ", "(", "1", "9", "8", "8", ")">>),
      genre |-> Str(<<"A", ",", " ", "B">>), rating |-> Num(8), votes |-> Num(10)],
     [title |-> Str(<<"a", " ", " ", "(", "1", "9", "8", "8", ")">>),
      genre |-> Str(<<"a", ",", " ", "b">>), rating |-> Num(8), votes |-> Num(10)],
     [title |-> Str(<<"B">>), genre |-> Str(<<"B">>), rating |-> Num(4), votes |-> NaN],
     [title |-> NaN, genre |-> NaN, rating |-> NaN, votes |-> NaN],
     [title |-> Str(<<"@">>), genre |-> Str(<<"B">>),
      rating |-> Str(<<"n", "/", "a">>), votes |-> Num(10)]}
RawTables == UNION {[1..n -> RawRows] : n \in 0..MaxRows}

\* a raw data file that exists and cannot be parsed, or holds no byte
Unreadable == [exists |-> TRUE, broken |-> "ParserError"]
ZeroBytes == [exists |-> TRUE, broken |-> "EmptyDataError"]
RawFiles == {NoFile, Unreadable, ZeroBytes} \cup {File(t) : t \in RawTables}

\* a DataFrame: its column names in order and its rows, each under its index label
Frame(columns, rows) == [columns |-> columns, rows |-> rows]
\* pd.read_csv: the rows of the file under the labels 0, 1, ...
read_csv(file) ==
    IF ~file.exists THEN [raised |-> TRUE, error |-> "FileNotFoundError", df |-> Null]
    ELSE IF "broken" \in DOMAIN file
         THEN [raised |-> TRUE, error |-> file.broken, df |-> Null]
         ELSE [raised |-> FALSE, error |-> None,
               df |-> Frame(RawColumns,
                            [i \in 1..Len(file.docs) |->
                                [id |-> i - 1, cells |-> file.docs[i]]])]

\* AnimeDataLoader.__init__ (lines 21-33)
NewLoader == [df |-> Null, cleaned_df |-> Null, pc |-> "idle"]

HasColumn(f, col) == \E j \in 1..Len(f.columns) : f.columns[j] = col
Column(f, col) == [i \in 1..Len(f.rows) |-> f.rows[i].cells[col]]
\* df[col] = values: the column is replaced, or appended when it is new
Assign(f, col, values) ==
    Frame(IF HasColumn(f, col) THEN f.columns ELSE Append(f.columns, col),
          [i \in 1..Len(f.rows) |->
              [id |-> f.rows[i].id, cells |-> (col :> values[i]) @@ f.rows[i].cells]])

\* the column's dtype is object: it holds a text (a file without rows is read
\* with every column of dtype object); otherwise it is a number column
is_object(f, col) == Len(f.rows) = 0 \/ \E i \in 1..Len(f.rows) : IsStr(f.rows[i].cells[col])

\* the k-th smallest of the numbers of a sequence of number cells
Kth(nums, k) ==
    CHOOSE v \in {nums[i].num : i \in 1..Len(nums)} :
        /\ Cardinality({i \in 1..Len(nums) : nums[i].num < v}) < k
        /\ Cardinality({i \in 1..Len(nums) : nums[i].num <= v}) >= k
\* Series.median: missing values are skipped; NaN when no number is left (the
\* rows drawn keep the mean of the two middle numbers whole)
median(values) ==
    LET nums == SelectSeq(values, IsNum)
        n == Len(nums)
    IN  IF n = 0 THEN NaN
        ELSE IF n % 2 = 1 THEN Num(Kth(nums, (n + 1) \div 2))
        ELSE Num((Kth(nums, n \div 2) + Kth(nums, n \div 2 + 1)) \div 2)
\* Series.fillna(v)
fillna(values, v) == [i \in 1..Len(values) |-> IF notna(values[i]) THEN values[i] ELSE v]

\* _handle_missing_values (lines 90-104), column by column from column j on
RECURSIVE FillColumns(_, _)
FillColumns(f, j) ==
    IF j > Len(f.columns) THEN f
    ELSE LET col == f.columns[j]
             values == Column(f, col)
         IN  FillColumns(Assign(f, col, IF is_object(f, col)
                                        THEN fillna(values, Str(Unknown))
                                        ELSE fillna(values, median(values))), j + 1)
_handle_missing_values(f) == FillColumns(f, 1)

\* Series.astype(str) on one cell of a text column
astype_str(c) == IF IsStr(c) THEN c.str ELSE nan
RECURSIVE CollapseWhitespace(_)
\* re.sub(r'\s+', ' ', text)
CollapseWhitespace(s) ==
    IF Len(s) < 2 THEN s
    ELSE IF s[1] \in Whitespace /\ s[2] \in Whitespace THEN CollapseWhitespace(Tail(s))
    ELSE <<s[1]>> \o CollapseWhitespace(Tail(s))
RECURSIVE lstrip(_)
lstrip(s) == IF Len(s) > 0 /\ s[1] \in Whitespace THEN lstrip(Tail(s)) ELSE s
Reverse(s) == [i \in 1..Len(s) |-> s[Len(s) + 1 - i]]
strip(s) == Reverse(lstrip(Reverse(lstrip(s))))
\* _clean_text (lines 118-130)
_clean_text(text) ==
    IF text = nan THEN Unknown
    ELSE LET kept == SelectSeq(text, LAMBDA c : c \in WordChars \cup Whitespace \cup KeptPunctuation)
             spaced == strip(CollapseWhitespace(kept))
             lowered == [i \in 1..Len(spaced) |-> lower(spaced[i])]
         IN  IF Len(lowered) = 0 THEN Unknown ELSE lowered

\* _clean_text_columns (lines 106-116), from the j-th text column on
TextColumns == <<"title", "genre", "description", "director", "cast">>
RECURSIVE CleanColumns(_, _)
CleanColumns(f, j) ==
    IF j > Len(TextColumns) THEN f
    ELSE LET col == TextColumns[j]
         IN  CleanColumns(IF HasColumn(f, col)
                          THEN Assign(f, col, [i \in 1..Len(f.rows) |->
                                   Str(_clean_text(astype_str(f.rows[i].cells[col])))])
                          ELSE f, j + 1)
_clean_text_columns(f) == CleanColumns(f, 1)

\* Series.str.extract(r'\((\d{4})\)') on one text: the four digits of the
\* first parenthesized group, or a missing value
str_extract(s) ==
    LET at == {i \in 1..(Len(s) - 5) :
                  /\ s[i] = "(" /\ s[i + 5] = ")"
                  /\ \A j \in 1..4 : s[i + j] \in Digits}
    IN  IF at = {} THEN NaN
        ELSE LET i == CHOOSE i \in at : \A j \in at : i <= j
             IN  Str(SubSeq(s, i + 1, i + 4))
RECURSIVE IntValue(_)
IntValue(s) == IF Len(s) = 0 THEN 0
               ELSE 10 * IntValue(SubSeq(s, 1, Len(s) - 1)) + digit(s[Len(s)])
\* pd.to_numeric(errors='coerce') on one cell
to_numeric(c) ==
    IF IsNum(c) THEN c
    ELSE IF IsStr(c) /\ Len(c.str) > 0 /\ \A i \in 1..Len(c.str) : c.str[i] \in Digits
         THEN Num(IntValue(c.str))
         ELSE NaN
\* a column is coerced to numbers and its missing values take its median
CoerceAndFill(f, col) ==
    LET values == [i \in 1..Len(f.rows) |-> to_numeric(f.rows[i].cells[col])]
    IN  Assign(f, col, fillna(values, median(values)))
\* _extract_numerical_features (lines 132-150)
_extract_numerical_features(f) ==
    LET f1 == IF HasColumn(f, "title")
              THEN CoerceAndFill(Assign(f, "year", [i \in 1..Len(f.rows) |->
                                      str_extract(f.rows[i].cells["title"].str)]), "year")
              ELSE f
        f2 == IF HasColumn(f1, "rating") THEN CoerceAndFill(f1, "rating") ELSE f1
    IN  IF HasColumn(f2, "votes") THEN CoerceAndFill(f2, "votes") ELSE f2

\* Python's order of two texts
RECURSIVE StrLess(_, _)
StrLess(a, b) ==
    IF Len(b) = 0 THEN FALSE
    ELSE IF Len(a) = 0 THEN TRUE
    ELSE IF ord(a[1]) # ord(b[1]) THEN ord(a[1]) < ord(b[1])
    ELSE StrLess(Tail(a), Tail(b))
\* LabelEncoder.fit_transform: the rank of the value among the column's values
fit_transform(values) ==
    [i \in 1..Len(values) |->
        Num(Cardinality({v \in {values[k].str : k \in 1..Len(values)} :
                            StrLess(v, values[i].str)}))]
\* _encode_categorical_variables (lines 152-162), from the j-th column on
CategoricalColumns == <<"genre", "director">>
EncodedName(col) == IF col = "genre" THEN "genre_encoded" ELSE "director_encoded"
RECURSIVE EncodeColumns(_, _)
EncodeColumns(f, j) ==
    IF j > Len(CategoricalColumns) THEN f
    ELSE LET col == CategoricalColumns[j]
         IN  EncodeColumns(IF HasColumn(f, col)
                           THEN Assign(f, EncodedName(col), fit_transform(Column(f, col)))
                           ELSE f, j + 1)
_encode_categorical_variables(f) == EncodeColumns(f, 1)

\* str.split(sep) and sep.join(parts) on one text
RECURSIVE split(_, _)
split(s, sep) ==
    LET at == {i \in 1..Len(s) : s[i] = sep}
    IN  IF at = {} THEN <<s>>
        ELSE LET i == CHOOSE i \in at : \A j \in at : i <= j
             IN  <<SubSeq(s, 1, i - 1)>> \o split(SubSeq(s, i + 1, Len(s)), sep)
RECURSIVE join(_, _)
join(sep, parts) ==
    IF Len(parts) = 1 THEN parts[1]
    ELSE parts[1] \o <<sep>> \o join(sep, Tail(parts))
\* str.count(c)
count(s, c) == Cardinality({i \in 1..Len(s) : s[i] = c})
\* pd.cut(rating, bins=[0, 5, 6, 7, 8, 10], labels=...) on one cell
cut(c) ==
    IF ~IsNum(c) \/ c.num <= 0 \/ c.num > 10 THEN NaN
    ELSE IF c.num <= 5 THEN Cat("Poor")
    ELSE IF c.num <= 6 THEN Cat("Below Average")
    ELSE IF c.num <= 7 THEN Cat("Average")
    ELSE IF c.num <= 8 THEN Cat("Good")
    ELSE Cat("Excellent")

\* str(value).strip() == ''
blank(c) == IsStr(c) /\ Len(strip(c.str)) = 0
\* the text of one row: a 'column: value' pair for every column whose value is
\* there, in the order of the columns
combined_info(f, row) ==
    LET cols == SelectSeq(f.columns, LAMBDA col :
                    /\ col # "combined_info"
                    /\ notna(row.cells[col])
                    /\ ~blank(row.cells[col]))
    IN  [text |-> [j \in 1..Len(cols) |-> [col |-> cols[j], value |-> row.cells[cols[j]]]]]
\* faulty variant of _create_combined_info_column: the raw columns only
CombineRawColumns(f) ==
    Assign(f, "combined_info",
           [i \in 1..Len(f.rows) |-> combined_info(Frame(RawColumns, f.rows), f.rows[i])])
\* _create_combined_info_column (lines 201-214)
_create_combined_info_column(f) ==
    Assign(f, "combined_info", [i \in 1..Len(f.rows) |-> combined_info(f, f.rows[i])])
\* DataFrame.apply(axis=1) over a frame without rows hands back, with the
\* pandas installed, an empty column or a frame the assignment refuses
CombinedInfoOutcomes(f) ==
    {[raised |-> FALSE, error |-> None, f |-> _create_combined_info_column(f)]}
    \cup IF Len(f.rows) = 0
         THEN {[raised |-> TRUE, error |-> "ValueError", f |-> f]}
         ELSE {}

\* _create_feature_combinations (lines 164-187) up to the combined_info column
DerivedFeatures(f) ==
    LET f1 == IF HasColumn(f, "genre")
              THEN Assign(Assign(f, "genre_list", [i \in 1..Len(f.rows) |->
                              Str(join(",", split(f.rows[i].cells["genre"].str, ",")))]),
                          "genre_count", [i \in 1..Len(f.rows) |->
                              Num(count(f.rows[i].cells["genre"].str, ",") + 1)])
              ELSE f
        f2 == IF HasColumn(f1, "year")
              THEN Assign(f1, "decade", [i \in 1..Len(f1.rows) |->
                       IF IsNum(f1.rows[i].cells["year"])
                       THEN Num((f1.rows[i].cells["year"].num \div 10) * 10)
                       ELSE NaN])
              ELSE f1
    IN  IF HasColumn(f2, "rating")
        THEN Assign(f2, "rating_category",
                    [i \in 1..Len(f2.rows) |-> cut(f2.rows[i].cells["rating"])])
        ELSE f2
\* _create_feature_combinations (lines 164-187): the outcomes
_create_feature_combinations(f) == CombinedInfoOutcomes(DerivedFeatures(f))

\* two rows agree on every column but genre_list
SameKey(f, r1, r2) ==
    \A j \in 1..Len(f.columns) :
        f.columns[j] = "genre_list" \/ r1.cells[f.columns[j]] = r2.cells[f.columns[j]]
RECURSIVE FirstOccurrences(_, _)
FirstOccurrences(f, i) ==
    IF i > Len(f.rows) THEN <<>>
    ELSE (IF \E j \in 1..(i - 1) : SameKey(f, f.rows[j], f.rows[i])
          THEN <<>> ELSE <<f.rows[i]>>) \o FirstOccurrences(f, i + 1)
\* faulty variant of _remove_duplicates: the last occurrence is kept
KeepLastOccurrence(f) ==
    Frame(f.columns, SelectSeq(f.rows, LAMBDA r :
              ~\E j \in 1..Len(f.rows) : f.rows[j].id > r.id /\ SameKey(f, f.rows[j], r)))
\* _remove_duplicates (lines 189-199)
_remove_duplicates(f) == Frame(f.columns, FirstOccurrences(f, 1))

\* clean_data (lines 54-88) on a loaded frame: it returns the cleaned frame,
\* or raises and leaves what the steps before had made
CleanFrame(df) ==
    {IF o.raised THEN [raised |-> TRUE, error |-> o.error, cleaned_df |-> o.f]
     ELSE [raised |-> FALSE, error |-> None, cleaned_df |-> _remove_duplicates(o.f)] :
        o \in _create_feature_combinations(
                  _encode_categorical_variables(_extract_numerical_features(
                      _clean_text_columns(_handle_missing_values(df)))))}
\* clean_data (lines 54-88) on a loader, over the raw data file
clean_data(ld, file) ==
    IF ld.df = Null /\ read_csv(file).raised
    THEN {[raised |-> TRUE, error |-> read_csv(file).error, ld |-> ld]}
    ELSE {[raised |-> o.raised, error |-> o.error,
           ld |-> [df |-> d, cleaned_df |-> o.cleaned_df, pc |-> "idle"]] :
             d \in {IF ld.df = Null THEN read_csv(file).df ELSE ld.df},
             o \in CleanFrame(IF ld.df = Null THEN read_csv(file).df ELSE ld.df)}
\* DataFrame[['combined_info']].to_csv(index=False): one text per row
to_csv(f) == File([i \in 1..Len(f.rows) |-> f.rows[i].cells["combined_info"].text])
\* save_combined_info_csv (lines 216-242) on a loader: what is raised, the
\* loader afterwards and the export written, if any
save_combined_info_csv(ld, file) ==
    {[raised |-> o.raised, error |-> o.error, ld |-> o.ld,
      written |-> ~o.raised /\ HasColumn(o.ld.cleaned_df, "combined_info")] :
        o \in IF ld.cleaned_df = Null THEN clean_data(ld, file)
              ELSE {[raised |-> FALSE, error |-> None, ld |-> ld]}}

\* AnimeIngestionPipeline.__init__ (lines 49-60)
NewPipelineStatus ==
    [data_loading |-> FALSE, vector_store_creation |-> FALSE,
     recommender_initialization |-> FALSE, overall_status |-> "not_started"]

NoResults == [pipeline_status |-> None, steps_completed |-> <<>>, errors |-> <<>>]

\* the program is started again: config.py reads the credential, no object survives
NewProcess ==
    \E key \in BOOLEAN :
        /\ OPENAI_API_KEY' = key
        /\ manager' = Null
        /\ pipeline_status' = NewPipelineStatus
        /\ data_loader' = FALSE
        /\ vector_store' = Null
        /\ recommender' = Null
        /\ pc' = "idle"
        /\ results' = NoResults
        /\ force_rebuild' = FALSE
        /\ loader' = NewLoader
        /\ lastOp' = PlainOp("new_process", FALSE, None)
        /\ UNCHANGED <<diskVars, embedderWorks, generatorWorks, uuid>>

\* the generation capability starts or stops answering
EnvGenerator ==
    /\ generatorWorks' = ~generatorWorks
    /\ lastOp' = PlainOp("env", FALSE, None)
    /\ UNCHANGED <<OPENAI_API_KEY, loader, diskVars, embedderWorks, manager, pipelineVars, uuid>>

\* the raw data file is replaced or removed outside the program
EnvRaw ==
    \E c \in {File(d) : d \in RawCorpora} \cup {NoFile} :
        /\ c # rawData
        /\ rawData' = c
        /\ lastOp' = PlainOp("env", FALSE, None)
        /\ UNCHANGED <<OPENAI_API_KEY, loader, corpusCsv, persistDir, embedderWorks,
                       generatorWorks, manager, pipelineVars, uuid>>

\* ------------------------------------------------ the recommendation engine
\* AnimeRecommender.__init__ (lines 62-67)
NewRecommender ==
    [vector_store_manager |-> Null, vector_store |-> None, llm |-> None,
     retrieval_chain |-> None, movie_data |-> None]

Raised(error) == [raised |-> TRUE, error |-> error]
Returned == [raised |-> FALSE, error |-> None]

ErrNoKey == "OpenAI API key required for LLM functionality"
ErrNoCsv == "FileNotFoundError"
ErrQuery == "query failed"

\* _initialize_llm: [r, raised, error]
_initialize_llm(r) ==
    IF ~OPENAI_API_KEY
    THEN [r |-> r] @@ Raised(ErrNoKey)
    ELSE [r |-> [r EXCEPT !.llm = "ChatOpenAI"]] @@ Returned

\* _load_movie_data: pd.read_csv(csv_path)
_load_movie_data(r, csv) ==
    IF ~csv.exists
    THEN [r |-> r] @@ Raised(ErrNoCsv)
    ELSE [r |-> [r EXCEPT !.movie_data = "loaded"]] @@ Returned

\* _create_retrieval_chain
_create_retrieval_chain(r) == [r EXCEPT !.retrieval_chain = "chain"]

\* initialize_components after _initialize_vector_store's build_vector_store()
\* call ended with outcome o: _initialize_llm, _load_movie_data and
\* _create_retrieval_chain, each reached only if the one before returned
InitializeAfterBuild(r, o, csv) ==
    LET r1 == [r EXCEPT !.vector_store_manager = o.m,
                        !.vector_store = IF o.raised THEN r.vector_store
                                         ELSE o.m.vector_store]
        l == _initialize_llm(r1)
        d == _load_movie_data(l.r, csv)
    IN  IF o.raised THEN [r |-> r1, build |-> o] @@ Raised(o.error)
        ELSE IF l.raised THEN [r |-> l.r, build |-> o] @@ Raised(l.error)
        ELSE IF d.raised THEN [r |-> d.r, build |-> o] @@ Raised(d.error)
        ELSE [r |-> _create_retrieval_chain(d.r), build |-> o] @@ Returned

\* initialize_components: [r, build, raised, error]; build is the outcome of the
\* build_vector_store() call of _initialize_vector_store, made on a new manager
initialize_components(r, dir, csv) ==
    CHOOSE ic \in {InitializeAfterBuild(r, o, csv) :
                      o \in {build_vector_store(NewManager("openai"), makedirs(dir),
                                                csv, FALSE, FALSE)}} : TRUE

\* the ways a query (embed the query, search the index, generate) can end for an
\* engine r: TRUE it returns, FALSE it raises.  Querying an index whose vectors
\* another provider made is left open: it may raise or return.
QueryOutcomes(r, dir) ==
    LET fine == embedderWorks /\ generatorWorks /\ dir.state = "valid"
        mixed == \E e \in dir.entries : e.provider # r.vector_store_manager.embeddings
    IN  {ok \in BOOLEAN : (ok => fine) /\ (~ok => (~fine \/ mixed))}

\* the ways the retrieval of a query can end, for the engine r
RetrievalOutcomes(r, dir) == SearchOutcomes(r.vector_store_manager, dir)

\* the fields get_recommendations looks for in the generator's response, in the
\* order it looks for them, and the responses: a value for some of the fields
AnswerFields == <<"output", "answer", "result">>
FieldText == [output |-> "text A", answer |-> "text B", result |-> "text C"]
Responses ==
    {[f \in S |-> FieldText[f]] :
        S \in SUBSET {AnswerFields[i] : i \in 1..Len(AnswerFields)}}

ErrNoChain == "Retrieval chain not initialized"
ErrNoVectorStore == "Vector store not initialized"
Placeholder == "No recommendations generated"
Decorator == "\n=============\n"

\* faulty variant of ExtractRecommendations: 'answer' is looked for first
ExtractAnswerFirst(response) ==
    IF "answer" \in DOMAIN response THEN response["answer"]
    ELSE IF "output" \in DOMAIN response THEN response["output"]
    ELSE IF "result" \in DOMAIN response THEN response["result"]
    ELSE Placeholder

\* response.get("output", response.get("answer", response.get("result", ...)))
ExtractRecommendations(response) ==
    IF "output" \in DOMAIN response THEN response["output"]
    ELSE IF "answer" \in DOMAIN response THEN response["answer"]
    ELSE IF "result" \in DOMAIN response THEN response["result"]
    ELSE Placeholder

\* the f-string of lines 282-286: the text between two decorator lines
FormatAnswer(recommendations) == <<Decorator, recommendations, Decorator>>

\* what a query hands back: [raised, error, result, llmCalls, searchCalls]; the
\* calls are the invocations of the generator and of the vector index
QueryRaised(error, llmCalls, searchCalls) ==
    [raised |-> TRUE, error |-> error, result |-> NoOut,
     llmCalls |-> llmCalls, searchCalls |-> searchCalls]

\* the k of the get_similar_movies call get_recommendations makes (line 273)
SimilarK == 5

\* get_similar_movies(query, k): the search of the engine's Chroma handle
get_similar_movies(r, dir, q, k, retrieved, hits) ==
    IF r.vector_store = None THEN QueryRaised(ErrNoVectorStore, 0, 0)
    ELSE IF ~retrieved THEN QueryRaised(ErrQuery, 0, 1)
    ELSE [raised |-> FALSE, error |-> None, result |-> hits,
          llmCalls |-> 0, searchCalls |-> 1]

\* faulty variant of get_recommendations: the retrieval chain is not checked,
\* and invoking the chain that is not there raises
QueryWithoutGuard(r, dir, q, response, retrieved, hits) ==
    IF r.retrieval_chain = None \/ ~retrieved THEN QueryRaised(ErrQuery, 0, 1)
    ELSE IF ~generatorWorks THEN QueryRaised(ErrQuery, 1, 1)
    ELSE [raised |-> FALSE, error |-> None,
          result |-> [query |-> q,
                      recommendations |-> FormatAnswer(ExtractRecommendations(response)),
                      similar_movies |-> hits],
          llmCalls |-> 1, searchCalls |-> 2]

\* get_recommendations(user_query): the chain retrieves and generates, then
\* get_similar_movies(user_query, k=5).  retrieved: the retrieval answers;
\* response: what the chain hands back; hits: what the similarity search finds
get_recommendations(r, dir, q, response, retrieved, hits) ==
    LET sm == get_similar_movies(r, dir, q, SimilarK, retrieved, hits)
    IN  IF r.retrieval_chain = None THEN QueryRaised(ErrNoChain, 0, 0)
        ELSE IF ~retrieved THEN QueryRaised(ErrQuery, 0, 1)
        ELSE IF ~generatorWorks THEN QueryRaised(ErrQuery, 1, 1)
        ELSE IF sm.raised THEN QueryRaised(sm.error, 1, 1 + sm.searchCalls)
        ELSE [raised |-> FALSE, error |-> None,
              result |-> [query |-> q,
                          recommendations |->
                              FormatAnswer(ExtractRecommendations(response)),
                          similar_movies |-> sm.result],
              llmCalls |-> 1, searchCalls |-> 1 + sm.searchCalls]

\* ------------------------------------------------ the pipeline orchestrator
Stages == <<"data_loading", "vector_store_creation", "recommender_initialization">>
StageSet == {Stages[i] : i \in 1..Len(Stages)}
StageIndex(stage) == CHOOSE i \in 1..Len(Stages) : Stages[i] = stage

\* get_pipeline_status()
get_pipeline_status ==
    [pipeline_status |-> pipeline_status,
     components_initialized |->
         [data_loader |-> data_loader,
          vector_store |-> vector_store # Null,
          recommender |-> recommender # Null]]

\* run_complete_pipeline, lines 80-85: the fresh results
NewResults == [pipeline_status |-> "running", steps_completed |-> <<>>, errors |-> <<>>]

\* faulty variant of run_except: the error message is not recorded
SwallowError(res, error) == [res EXCEPT !.pipeline_status = "failed"]

\* run_complete_pipeline's except clause (lines 124-129), on results
run_except(res, error) ==
    [res EXCEPT !.pipeline_status = "failed", !.errors = Append(@, error)]

\* faulty variant of step_except: a failing stage clears every stage flag
ResetAllFlags(status, stage) ==
    [status EXCEPT !.data_loading = FALSE, !.vector_store_creation = FALSE,
                   !.recommender_initialization = FALSE]

\* the except clause of a _run_*_step: the step's own flag is set to False
step_except(status, stage) == [status EXCEPT ![stage] = FALSE]

\* faulty variant of StageFails: the results handed back are not marked failed
FailureLeavesRunning(stage, error) ==
    /\ pipeline_status' = [step_except(pipeline_status, stage)
                              EXCEPT !.overall_status = "failed"]
    /\ results' = [results EXCEPT !.errors = Append(@, error)]
    /\ pc' = "idle"

\* a stage raised: its except clause, then run_complete_pipeline's, which returns
StageFails(stage, error) ==
    /\ pipeline_status' = [step_except(pipeline_status, stage)
                              EXCEPT !.overall_status = "failed"]
    /\ results' = run_except(results, error)
    /\ pc' = "idle"

\* a stage returned: its flag is set and run_complete_pipeline goes on
StageReturns(stage) ==
    LET last == StageIndex(stage) = Len(Stages)
        status1 == [pipeline_status EXCEPT ![stage] = TRUE]
        res1 == [results EXCEPT !.steps_completed = Append(@, stage)]
    IN  /\ pipeline_status' =
              IF last THEN [status1 EXCEPT !.overall_status = "completed"] ELSE status1
        /\ results' = IF last THEN [res1 EXCEPT !.pipeline_status = "completed"] ELSE res1
        /\ pc' = IF last THEN "idle" ELSE Stages[StageIndex(stage) + 1]

\* run_complete_pipeline(force_rebuild) is entered
StartRun ==
    \E force \in BOOLEAN :
        /\ pc = "idle"
        /\ pc' = Stages[1]
        /\ results' = NewResults
        /\ force_rebuild' = force
        /\ lastOp' = PlainOp("run_complete_pipeline", FALSE, None)
        /\ UNCHANGED <<OPENAI_API_KEY, loader, diskVars, embedderWorks, generatorWorks,
                       manager, pipeline_status, data_loader, vector_store,
                       recommender, uuid>>

\* the ensure-ready check of ask_recommendations.main (lines 43-52)
EnsureReady ==
    /\ pc = "idle"
    /\ IF ~get_pipeline_status.components_initialized.recommender
       THEN /\ pc' = Stages[1]
            /\ results' = NewResults
            /\ force_rebuild' = FALSE
            /\ lastOp' = PlainOp("ensure_ready_run", FALSE, None)
       ELSE /\ lastOp' = PlainOp("ensure_ready_skip", FALSE, None)
            /\ UNCHANGED <<pc, results, force_rebuild>>
    /\ UNCHANGED <<OPENAI_API_KEY, loader, diskVars, embedderWorks, generatorWorks,
                   manager, pipeline_status, data_loader, vector_store,
                   recommender, uuid>>

\* _run_data_loading_step: load and clean the raw data, write the corpus export
DataLoadingStep ==
    /\ pc = "data_loading"
    /\ data_loader' = TRUE
    /\ IF ~rawData.exists
       THEN /\ StageFails("data_loading", "FileNotFoundError")
            /\ lastOp' = PlainOp("data_loading", TRUE, "FileNotFoundError")
            /\ UNCHANGED corpusCsv
       ELSE /\ corpusCsv' = File(rawData.docs)
            /\ StageReturns("data_loading")
            /\ lastOp' = PlainOp("data_loading", FALSE, None)
    /\ UNCHANGED <<OPENAI_API_KEY, loader, rawData, persistDir, embedderWorks,
                   generatorWorks, manager, vector_store, recommender,
                   force_rebuild, uuid>>

\* _run_vector_store_step: a new manager, build_vector_store, get_collection_info
VectorStoreStep ==
    /\ pc = "vector_store_creation"
    /\ \E o \in {build_vector_store(NewManager("openai"), makedirs(persistDir),
                                     corpusCsv, force_rebuild, FALSE)} :
           /\ vector_store' = o.m
           /\ persistDir' = o.dir
           /\ uuid' = NextUuid(o)
           /\ lastOp' = BuildOp("vector_store_creation", force_rebuild, FALSE,
                                NewManager("openai"), persistDir, corpusCsv, o)
           /\ IF o.raised
              THEN StageFails("vector_store_creation", o.error)
              ELSE StageReturns("vector_store_creation")
    /\ UNCHANGED <<OPENAI_API_KEY, loader, rawData, corpusCsv, embedderWorks,
                   generatorWorks, manager, data_loader, recommender,
                   force_rebuild>>

\* _run_recommender_step: a new engine, initialize_components, the statistics
\* and the built-in test query
RecommenderStep ==
    /\ pc = "recommender_initialization"
    /\ \E ic \in {initialize_components(NewRecommender, persistDir, corpusCsv)} :
           /\ recommender' = ic.r
           /\ persistDir' = ic.build.dir
           /\ uuid' = NextUuid(ic.build)
           /\ \E ok \in IF ic.raised THEN {FALSE} ELSE QueryOutcomes(ic.r, ic.build.dir) :
                LET error == IF ic.raised THEN ic.error ELSE ErrQuery
                IN  /\ lastOp' = [BuildOp("recommender_initialization", FALSE, FALSE,
                                          NewManager("openai"), persistDir,
                                          corpusCsv, ic.build)
                                  EXCEPT !.raised = ~ok,
                                         !.error = IF ok THEN None ELSE error]
                    /\ IF ok
                       THEN StageReturns("recommender_initialization")
                       ELSE StageFails("recommender_initialization", error)
    /\ UNCHANGED <<OPENAI_API_KEY, loader, rawData, corpusCsv, embedderWorks,
                   generatorWorks, manager, data_loader, vector_store,
                   force_rebuild>>

\* a holder of the pipeline's engine calls recommender.initialize_components()
\* between two runs, as st_app.py does on the engine it makes
InitializeComponents ==
    /\ pc = "idle"
    /\ recommender # Null
    /\ \E ic \in {initialize_components(recommender, persistDir, corpusCsv)} :
           /\ recommender' = ic.r
           /\ persistDir' = ic.build.dir
           /\ uuid' = NextUuid(ic.build)
           /\ lastOp' = [BuildOp("initialize_components", FALSE, FALSE,
                                 NewManager("openai"), persistDir, corpusCsv,
                                 ic.build)
                         EXCEPT !.raised = ic.raised, !.error = ic.error]
    /\ UNCHANGED <<OPENAI_API_KEY, loader, rawData, corpusCsv, embedderWorks,
                   generatorWorks, manager, pipeline_status, data_loader,
                   vector_store, pc, results, force_rebuild>>

\* what a query meets: the chain's response, whether the retrieval answers and
\* what the similarity search finds.  An engine without a chain invokes nothing.
QueryWorlds(r, dir, q) ==
    IF r = Null \/ r.retrieval_chain = None
    THEN {[response |-> <<>>, retrieved |-> FALSE, hits |-> <<>>]}
    ELSE UNION {IF ok /\ generatorWorks
                THEN {[response |-> resp, retrieved |-> TRUE, hits |-> h] :
                         resp \in Responses, h \in ChromaSearch(dir.entries, q, SimilarK)}
                ELSE {[response |-> <<>>, retrieved |-> ok, hits |-> <<>>]} :
                   ok \in RetrievalOutcomes(r, dir)}

\* the worlds in which the chain, when it answers, hands back what
\* create_retrieval_chain makes: a response with the field 'answer'
AnswerWorlds(r, dir, q) ==
    {w \in QueryWorlds(r, dir, q) :
        IF w.retrieved /\ generatorWorks THEN DOMAIN w.response = {"answer"}
        ELSE w.response = <<>>}

ErrNoRecommender == "Recommender not initialized. Run pipeline first."

\* AnimeIngestionPipeline.get_recommendations(query), on the engine rec
pipeline_get_recommendations(rec, dir, q, response, retrieved, hits) ==
    IF rec = Null THEN QueryRaised(ErrNoRecommender, 0, 0)
    ELSE get_recommendations(rec, dir, q, response, retrieved, hits)

\* a caller asks pipeline.get_recommendations(query) between two runs
GetRecommendations ==
    /\ pc = "idle"
    /\ \E q \in Queries :
         \E w \in QueryWorlds(recommender, persistDir, q) :
           \E o \in {pipeline_get_recommendations(recommender, persistDir, q,
                                                  w.response, w.retrieved, w.hits)} :
              lastOp' = [PlainOp("get_recommendations", o.raised, o.error)
                         EXCEPT !.out = [query |-> q, response |-> w.response,
                                         result |-> o.result,
                                         llmCalls |-> o.llmCalls,
                                         searchCalls |-> o.searchCalls]]
    /\ UNCHANGED <<OPENAI_API_KEY, loader, diskVars, embedderWorks, generatorWorks,
                   manager, pipelineVars, uuid>>

\* f"Error: {str(e)}"
ErrorString(error) == <<"Error: ", error>>

\* faulty variant of ask_question: the exception of get_recommendations gets out
AskQuestionPropagates(rec, dir, q, response, retrieved, hits) ==
    LET o == pipeline_get_recommendations(rec, dir, q, response, retrieved, hits)
    IN  [raised |-> o.raised, error |-> o.error,
         answer |-> IF o.raised THEN <<>> ELSE o.result.recommendations, inner |-> o]

\* ask_question(question): [raised, error, answer, inner]; inner is how the
\* get_recommendations call it makes ended
ask_question(rec, dir, q, response, retrieved, hits) ==
    LET o == pipeline_get_recommendations(rec, dir, q, response, retrieved, hits)
    IN  [raised |-> FALSE, error |-> None,
         answer |-> IF o.raised THEN ErrorString(o.error)
                    ELSE o.result.recommendations,
         inner |-> o]

\* a caller asks pipeline.ask_question(question) between two runs
AskQuestion ==
    /\ pc = "idle"
    /\ \E q \in Queries :
         \E w \in AnswerWorlds(recommender, persistDir, q) :
           \E a \in {ask_question(recommender, persistDir, q, w.response,
                                  w.retrieved, w.hits)} :
              lastOp' = [PlainOp("ask_question", a.raised, a.error)
                         EXCEPT !.out = [query |-> q, response |-> w.response,
                                         answer |-> a.answer,
                                         innerRaised |-> a.inner.raised,
                                         innerError |-> a.inner.error]]
    /\ UNCHANGED <<OPENAI_API_KEY, loader, diskVars, embedderWorks, generatorWorks,
                   manager, pipelineVars, uuid>>

\* quick_recommendations' queries when it is given none (lines 414-419)
DefaultQueries ==
    <<"I like action and adventure movies",
      "Show me some romantic comedy movies",
      "Recommend me sci-fi movies with high ratings",
      "I want to watch something similar to Christopher Nolan films">>

\* the lists of queries a caller gives: none, one, two, the same one twice
QueryLists == {<<>>, <<"q1">>, <<"q1", "q2">>, <<"q2", "q2">>}

RECURSIVE BatchWorlds(_, _, _)
\* what the queries of a list meet, one world for each query in turn
BatchWorlds(r, dir, list) ==
    IF list = <<>> THEN {<<>>}
    ELSE {<<w>> \o ws : w \in AnswerWorlds(r, dir, Head(list)),
                         ws \in BatchWorlds(r, dir, Tail(list))}

\* the entry quick_recommendations stores for a query whose call ended as o
BatchEntry(o) == IF o.raised THEN [error |-> o.error] ELSE o.result

RECURSIVE BatchStopsAtFailure(_, _, _, _, _)
\* faulty variant of BatchResults: the loop ends at the first query that fails
BatchStopsAtFailure(rec, dir, list, ws, i) ==
    IF i = 0 THEN <<>>
    ELSE LET prev == BatchStopsAtFailure(rec, dir, list, ws, i - 1)
             o == pipeline_get_recommendations(rec, dir, list[i], ws[i].response,
                                               ws[i].retrieved, ws[i].hits)
         IN  IF \E q \in DOMAIN prev : "error" \in DOMAIN prev[q] THEN prev
             ELSE [q \in DOMAIN prev \cup {list[i]} |->
                      IF q = list[i] THEN BatchEntry(o) ELSE prev[q]]

RECURSIVE BatchResults(_, _, _, _, _)
\* the results dict of quick_recommendations after the first i queries of list,
\* query i meeting ws[i] (the loop of lines 421-430)
BatchResults(rec, dir, list, ws, i) ==
    IF i = 0 THEN <<>>
    ELSE LET prev == BatchResults(rec, dir, list, ws, i - 1)
             o == pipeline_get_recommendations(rec, dir, list[i], ws[i].response,
                                               ws[i].retrieved, ws[i].hits)
         IN  [q \in DOMAIN prev \cup {list[i]} |->
                 IF q = list[i] THEN BatchEntry(o) ELSE prev[q]]

\* quick_recommendations(queries); given is FALSE for queries=None
quick_recommendations(rec, dir, given, queries, ws) ==
    LET list == IF given THEN queries ELSE DefaultQueries
    IN  [raised |-> FALSE, error |-> None,
         results |-> BatchResults(rec, dir, list, ws, Len(list))]

\* a caller asks pipeline.quick_recommendations(queries) between two runs
QuickRecommendations ==
    /\ pc = "idle"
    /\ \E given \in BOOLEAN :
         \E queries \in IF given THEN QueryLists ELSE {DefaultQueries} :
           \E ws \in BatchWorlds(recommender, persistDir, queries) :
             \E b \in {quick_recommendations(recommender, persistDir, given,
                                                queries, ws)} :
                lastOp' = [PlainOp("quick_recommendations", b.raised, b.error)
                           EXCEPT !.out =
                               [given |-> given, queries |-> queries,
                                results |-> b.results,
                                calls |-> [i \in 1..Len(queries) |->
                                    pipeline_get_recommendations(
                                        recommender, persistDir, queries[i],
                                        ws[i].response, ws[i].retrieved,
                                        ws[i].hits)]]]
    /\ UNCHANGED <<OPENAI_API_KEY, loader, diskVars, embedderWorks, generatorWorks,
                   manager, pipelineVars, uuid>>

\* ------------------------------------------- the stand-alone data loader
\* load_data (lines 35-52): the file is read, or the error is raised again
LoadData ==
    /\ loader.pc = "idle"
    /\ \E r \in {read_csv(rawData)} :
        /\ loader' = IF r.raised THEN loader ELSE [loader EXCEPT !.df = r.df]
        /\ lastOp' = PlainOp("load_data", r.raised, r.error)
    /\ UNCHANGED <<OPENAI_API_KEY, diskVars, embedderWorks, generatorWorks,
                   manager, pipelineVars, uuid>>

\* clean_data (lines 54-67): the data is loaded when it was not, and copied
CleanData ==
    /\ loader.pc = "idle"
    /\ \E r \in {read_csv(rawData)} :
        IF loader.df = Null /\ r.raised
        THEN /\ loader' = loader
             /\ lastOp' = PlainOp("clean_data", TRUE, r.error)
        ELSE /\ \E d \in {IF loader.df = Null THEN r.df ELSE loader.df} :
                   loader' = [df |-> d, cleaned_df |-> d, pc |-> "_handle_missing_values"]
             /\ lastOp' = PlainOp("clean_data", FALSE, None)
    /\ UNCHANGED <<OPENAI_API_KEY, diskVars, embedderWorks, generatorWorks,
                   manager, pipelineVars, uuid>>

\* one step of clean_data on the copy, and the step that follows it
CleaningStep(op, f, next) ==
    /\ loader.pc = op
    /\ loader' = [loader EXCEPT !.cleaned_df = f, !.pc = next]
    /\ lastOp' = PlainOp(op, FALSE, None)
    /\ UNCHANGED <<OPENAI_API_KEY, diskVars, embedderWorks, generatorWorks,
                   manager, pipelineVars, uuid>>

\* clean_data, step 1 (lines 69-70)
HandleMissingValues ==
    /\ loader.pc = "_handle_missing_values"
    /\ CleaningStep("_handle_missing_values", _handle_missing_values(loader.cleaned_df),
                    "_clean_text_columns")

\* clean_data, step 2 (lines 72-73)
CleanTextColumns ==
    /\ loader.pc = "_clean_text_columns"
    /\ CleaningStep("_clean_text_columns", _clean_text_columns(loader.cleaned_df),
                    "_extract_numerical_features")

\* clean_data, step 3 (lines 75-76)
ExtractNumericalFeatures ==
    /\ loader.pc = "_extract_numerical_features"
    /\ CleaningStep("_extract_numerical_features",
                    _extract_numerical_features(loader.cleaned_df),
                    "_encode_categorical_variables")

\* clean_data, step 4 (lines 78-79)
EncodeCategoricalVariables ==
    /\ loader.pc = "_encode_categorical_variables"
    /\ CleaningStep("_encode_categorical_variables",
                    _encode_categorical_variables(loader.cleaned_df),
                    "_create_feature_combinations")

\* clean_data, step 5 (lines 81-82): the derived columns, then the combined_info
\* column; an exception leaves clean_data
CreateFeatureCombinations ==
    /\ loader.pc = "_create_feature_combinations"
    /\ \E o \in _create_feature_combinations(loader.cleaned_df) :
        /\ loader' = [loader EXCEPT !.cleaned_df = o.f,
                         !.pc = IF o.raised THEN "idle" ELSE "_remove_duplicates"]
        /\ lastOp' = PlainOp("_create_feature_combinations", o.raised, o.error)
    /\ UNCHANGED <<OPENAI_API_KEY, diskVars, embedderWorks, generatorWorks,
                   manager, pipelineVars, uuid>>

\* clean_data, step 6 (lines 84-88), after which clean_data returns; also
\* _remove_duplicates called once more on the cleaned frame
RemoveDuplicates ==
    /\ \/ loader.pc = "_remove_duplicates"
       \/ /\ loader.pc = "idle"
          /\ loader.cleaned_df # Null
          /\ HasColumn(loader.cleaned_df, "combined_info")
    /\ loader' = [loader EXCEPT !.cleaned_df = _remove_duplicates(@), !.pc = "idle"]
    /\ lastOp' = PlainOp("_remove_duplicates", FALSE, None)
    /\ UNCHANGED <<OPENAI_API_KEY, diskVars, embedderWorks, generatorWorks,
                   manager, pipelineVars, uuid>>

\* save_combined_info_csv (lines 216-242) on the stand-alone loader
SaveCombinedInfoCsv ==
    /\ loader.pc = "idle"
    /\ \E o \in save_combined_info_csv(loader, rawData) :
        /\ loader' = o.ld
        /\ corpusCsv' = IF o.written THEN to_csv(o.ld.cleaned_df) ELSE corpusCsv
        /\ lastOp' = PlainOp("save_combined_info_csv", o.raised, o.error)
    /\ UNCHANGED <<OPENAI_API_KEY, rawData, persistDir, embedderWorks, generatorWorks,
                   manager, pipelineVars, uuid>>

\* _run_data_loading_step (lines 131-178) called on a pipeline, over the raw
\* table in full detail: a new loader, clean_data, save_processed_data (files
\* nothing reads), save_combined_info_csv, the stage's flag
RunDataLoadingStep ==
    /\ pc = "idle"
    /\ data_loader' = TRUE
    /\ \E o \in clean_data(NewLoader, rawData) :
        /\ corpusCsv' = IF o.raised THEN corpusCsv ELSE to_csv(o.ld.cleaned_df)
        /\ pipeline_status' = IF o.raised THEN step_except(pipeline_status, "data_loading")
                              ELSE [pipeline_status EXCEPT !.data_loading = TRUE]
        /\ lastOp' = PlainOp("_run_data_loading_step", o.raised, o.error)
    /\ UNCHANGED <<OPENAI_API_KEY, loader, rawData, persistDir, embedderWorks,
                   generatorWorks, manager, vector_store, recommender, pc, results,
                   force_rebuild, uuid>>

\* --------------------------------------------------------- specifications
MemoryInit ==
    /\ manager = Null
    /\ pipeline_status = NewPipelineStatus
    /\ data_loader = FALSE
    /\ vector_store = Null
    /\ recommender = Null
    /\ pc = "idle"
    /\ results = NoResults
    /\ force_rebuild = FALSE
    /\ loader = NewLoader
    /\ lastOp = PlainOp("new_process", FALSE, None)

\* the index manager alone, over a corpus export written outside the program
VSInit ==
    /\ OPENAI_API_KEY \in BOOLEAN
    /\ rawData = NoFile
    /\ corpusCsv \in {File(d) : d \in Corpora} \cup {NoFile}
    /\ persistDir = AbsentDir
    /\ embedderWorks = TRUE
    /\ generatorWorks = TRUE
    /\ uuid = 0
    /\ MemoryInit

VSNext ==
    \/ ManagerNew
    \/ ManagerInitializeEmbeddings
    \/ ManagerBuild
    \/ ManagerDelete
    \/ ManagerSearch
    \/ ManagerInfo
    \/ EnvCorpus
    \/ EnvCorruptIndex
    \/ EnvEmbedder
    \/ NewProcess

VSSpec == VSInit /\ [][VSNext]_vars

\* the pipeline, over a raw data file written outside the program
Init ==
    /\ OPENAI_API_KEY \in BOOLEAN
    /\ rawData \in {File(d) : d \in RawCorpora} \cup {NoFile}
    /\ corpusCsv = NoFile
    /\ persistDir = AbsentDir
    /\ embedderWorks = TRUE
    /\ generatorWorks = TRUE
    /\ uuid = 0
    /\ MemoryInit

Next ==
    \/ StartRun
    \/ EnsureReady
    \/ DataLoadingStep
    \/ VectorStoreStep
    \/ RecommenderStep
    \/ InitializeComponents
    \/ GetRecommendations
    \/ AskQuestion
    \/ QuickRecommendations
    \/ EnvRaw
    \/ EnvCorruptIndex
    \/ EnvEmbedder
    \/ EnvGenerator
    \/ NewProcess

Spec == Init /\ [][Next]_vars

\* the data loader alone, and the pipeline's first stage, over a raw data file
\* written outside the program
DLInit ==
    /\ OPENAI_API_KEY = FALSE
    /\ rawData \in RawFiles
    /\ corpusCsv = NoFile
    /\ persistDir = AbsentDir
    /\ embedderWorks = TRUE
    /\ generatorWorks = TRUE
    /\ uuid = 0
    /\ MemoryInit

DLNext ==
    \/ LoadData
    \/ CleanData
    \/ HandleMissingValues
    \/ CleanTextColumns
    \/ ExtractNumericalFeatures
    \/ EncodeCategoricalVariables
    \/ CreateFeatureCombinations
    \/ RemoveDuplicates
    \/ SaveCombinedInfoCsv
    \/ RunDataLoadingStep

DLSpec == DLInit /\ [][DLNext]_vars

\* ---------------------------------------------------- the pipeline's claims
\* the last step was a stage of run_complete_pipeline, and it raised
StageRaised == lastOp.op \in StageSet /\ lastOp.raised

\* C1: when a stage of run_complete_pipeline raises, the run returns at once (no
\* later stage runs), the returned pipeline_status and the stored overall_status
\* are 'failed', errors holds exactly the raised error, and steps_completed is
\* the list of the stages before the failing one.
C1_FailedRunStopsAtFailingStage ==
    StageRaised =>
        /\ pc = "idle"
        /\ results.pipeline_status = "failed"
        /\ pipeline_status.overall_status = "failed"
        /\ results.errors = <<lastOp.error>>
        /\ results.steps_completed = SubSeq(Stages, 1, StageIndex(lastOp.op) - 1)

\* the vector store stage raised after the data loading stage had completed
C1_Witness ==
    /\ StageRaised
    /\ lastOp.op = "vector_store_creation"
    /\ results.steps_completed = <<"data_loading">>

EngineInitialized == recommender # Null /\ recommender.retrieval_chain # None

\* C3: the ensure-ready check reports the recommender as initialized only if the
\* engine's initialize_components has completed, so the check skips the run only
\* on an initialized engine and runs the pipeline only on one that is not.
C3_EnsureReadyRunsIffNotInitialized ==
    /\ get_pipeline_status.components_initialized.recommender => EngineInitialized
    /\ lastOp.op = "ensure_ready_skip" => EngineInitialized
    /\ lastOp.op = "ensure_ready_run" => ~EngineInitialized

\* C10: with the credential absent, no stage raises because of it and no run
\* reports it as an error.
C10_MissingCredentialNeverFails ==
    ~OPENAI_API_KEY =>
        /\ ~(lastOp.raised /\ lastOp.error = ErrNoKey)
        /\ \A i \in 1..Len(results.errors) : results.errors[i] # ErrNoKey

\* C11: get_recommendations on an engine whose initialize_components has not
\* completed (or on a pipeline that has no engine yet) raises the not-initialized
\* error, invokes neither the generator nor the vector index, and leaves every
\* component of the engine as it was.
C11_QueryBeforeInitializeFails ==
    [][(lastOp'.op = "get_recommendations" /\ ~EngineInitialized) =>
          /\ lastOp'.raised
          /\ lastOp'.error = (IF recommender = Null THEN ErrNoRecommender
                              ELSE ErrNoChain)
          /\ lastOp'.out.llmCalls = 0
          /\ lastOp'.out.searchCalls = 0
          /\ recommender' = recommender]_vars

\* a query on an engine whose initialization stopped after the index was loaded:
\* it raised, and the engine still holds the index and no chain
C11_Witness ==
    /\ lastOp.op = "get_recommendations"
    /\ lastOp.error = ErrNoChain
    /\ recommender # Null
    /\ recommender.vector_store # None
    /\ recommender.retrieval_chain = None

\* C15: ask_question never raises, whether the pipeline has no engine, an engine
\* that is not initialized, a failing generator or a ready engine: it returns the
\* recommendation text when its get_recommendations call returned, and the
\* string 'Error: ' followed by the message exactly when that call raised.
C15_AskQuestionNeverRaises ==
    lastOp.op = "ask_question" =>
        /\ ~lastOp.raised
        /\ lastOp.out.innerRaised <=> Head(lastOp.out.answer) = "Error: "
        /\ lastOp.out.innerRaised =>
              lastOp.out.answer = <<"Error: ", lastOp.out.innerError>>
        /\ ~lastOp.out.innerRaised =>
              lastOp.out.answer =
                  FormatAnswer(ExtractRecommendations(lastOp.out.response))
        /\ lastOp.out.innerRaised <=> (~EngineInitialized \/ lastOp.out.innerError = ErrQuery)
        /\ recommender = Null =>
              lastOp.out.answer = <<"Error: ", ErrNoRecommender>>
        /\ (recommender # Null /\ ~EngineInitialized) =>
              lastOp.out.answer = <<"Error: ", ErrNoChain>>
        /\ (EngineInitialized /\ ~generatorWorks) =>
              lastOp.out.answer = <<"Error: ", ErrQuery>>

\* a question put to a ready engine whose generator does not answer came back as
\* an error string
C15_Witness ==
    /\ lastOp.op = "ask_question"
    /\ EngineInitialized
    /\ embedderWorks
    /\ persistDir.state = "valid"
    /\ ~generatorWorks
    /\ lastOp.out.answer = <<"Error: ", ErrQuery>>

\* C16: quick_recommendations never raises; the keys of the mapping it returns
\* are exactly the distinct queries of its input (the four default queries when
\* it is given none); every query maps to the result of its last call, or to
\* {'error': message} when that call raised, so a query that fails does not keep
\* a later one from being processed.
C16_BatchAnswersEveryQuery ==
    lastOp.op = "quick_recommendations" =>
        LET list == lastOp.out.queries
            calls == lastOp.out.calls
            res == lastOp.out.results
        IN  /\ ~lastOp.raised
            /\ lastOp.out.given \/ list = DefaultQueries
            /\ DOMAIN res = {list[i] : i \in 1..Len(list)}
            /\ \A i \in 1..Len(list) :
                  (\A j \in (i + 1)..Len(list) : list[j] # list[i]) =>
                      IF calls[i].raised
                      THEN res[list[i]] = [error |-> calls[i].error]
                      ELSE /\ res[list[i]] = calls[i].result
                           /\ res[list[i]].query = list[i]

\* a batch of two queries of which the first failed and the second was answered
C16_Witness ==
    /\ lastOp.op = "quick_recommendations"
    /\ Len(lastOp.out.queries) = 2
    /\ lastOp.out.queries[1] # lastOp.out.queries[2]
    /\ lastOp.out.calls[1].raised
    /\ ~lastOp.out.calls[2].raised
    /\ "error" \in DOMAIN lastOp.out.results[lastOp.out.queries[1]]
    /\ "recommendations" \in DOMAIN lastOp.out.results[lastOp.out.queries[2]]

\* C17: a get_recommendations call whose chain answered returns, whatever
\* fields the response has: the recommendation text is, between two decorator
\* lines, the value of the first field present among output, answer, result in
\* that order, and the literal 'No recommendations generated' when none is.
C17_AnswerFieldOrPlaceholder ==
    lastOp.op = "get_recommendations" =>
        /\ (EngineInitialized /\ generatorWorks /\ embedderWorks
            /\ persistDir.state = "valid"
            /\ \A e \in persistDir.entries :
                   e.provider = recommender.vector_store_manager.embeddings)
              => ~lastOp.raised
        /\ ~lastOp.raised =>
              LET resp == lastOp.out.response
                  present == {i \in 1..Len(AnswerFields) :
                                 AnswerFields[i] \in DOMAIN resp}
                  text == lastOp.out.result.recommendations
              IN  /\ Len(text) = 3
                  /\ text[1] = "\n=============\n"
                  /\ text[3] = "\n=============\n"
                  /\ text[2] =
                        IF present = {} THEN "No recommendations generated"
                        ELSE resp[AnswerFields[CHOOSE i \in present :
                                                  \A j \in present : i <= j]]

\* a call returned the placeholder text for a response without any of the fields
C17_Witness ==
    /\ lastOp.op = "get_recommendations"
    /\ ~lastOp.raised
    /\ DOMAIN lastOp.out.response = {}
    /\ lastOp.out.result.recommendations[2] = Placeholder

\* C18: initialize_components on an engine that is already initialized does
\* nothing: it returns without loading or building an index, without reading
\* the corpus CSV, and leaves the engine and the persisted index as they were.
C18_InitializeAtMostOnce ==
    [][(lastOp'.op = "initialize_components" /\ EngineInitialized) =>
          /\ ~lastOp'.raised
          /\ ~lastOp'.reused
          /\ lastOp'.embedCalls = 0
          /\ ~lastOp'.readCsv
          /\ ~lastOp'.deletedDir
          /\ recommender' = recommender
          /\ persistDir' = persistDir]_vars

\* C19: the overall status get_pipeline_status returns is 'not_started' until the
\* first run begins, 'running' from the start of a run until it returns,
\* 'completed' or 'failed' once a run has returned, and on one pipeline instance
\* never 'not_started' again.
C19_OverallStatusFollowsRun ==
    [][LET status == get_pipeline_status'.pipeline_status.overall_status
       IN  /\ (pc' = "idle" /\ results' = NoResults) => status = "not_started"
           /\ pc' # "idle" => status = "running"
           /\ (pc' = "idle" /\ results' # NoResults) =>
                  status \in {"completed", "failed"}
           /\ (pipeline_status.overall_status # "not_started"
               /\ lastOp'.op # "new_process") => status # "not_started"
      ]_vars

\* ------------------------------------------------ the index manager's claims
\* the (anime_id, chunk) pairs of the entries of a directory
EntryKeys(dir) == {[anime_id |-> e.anime_id, chunk |-> e.chunk] : e \in dir.entries}

RECURSIVE SumChunks(_)
\* the number of chunks of a sequence of document lengths
SumChunks(docs) ==
    IF docs = <<>> THEN 0 ELSE NumChunks(Head(docs)) + SumChunks(Tail(docs))

\* the last step was manager.build_vector_store and the persisted index was loadable
LoadableBuild ==
    /\ lastOp.op = "build"
    /\ ~lastOp.force
    /\ lastOp.dirBefore = "valid"
    /\ lastOp.modelBefore # "unsupported"

\* C4: build_vector_store(force_rebuild=False) on a persisted index that loads
\* reuses it: it returns without raising, makes no embedding call, does not read
\* the corpus CSV, does not delete the directory and leaves the directory and
\* its entries as they were, whatever the corpus CSV now holds.
C4_ReuseTouchesNothing ==
    (LoadableBuild /\ ~lastOp.incremental_update) =>
        /\ ~lastOp.raised
        /\ lastOp.reused
        /\ lastOp.embedCalls = 0
        /\ ~lastOp.readCsv
        /\ ~lastOp.deletedDir
        /\ lastOp.dirUnchanged
        /\ manager.vector_store = "chroma"

\* an index was reused although the corpus CSV no longer matches its entries
C4_Witness ==
    /\ LoadableBuild
    /\ ~lastOp.incremental_update
    /\ lastOp.reused
    /\ corpusCsv.exists
    /\ persistDir.entries # {}
    /\ EntryKeys(persistDir) # chunk_documents(create_documents(corpusCsv))

\* the last step was manager.build_vector_store(force_rebuild=True) and it returned
ForcedBuildReturned ==
    /\ lastOp.op = "build"
    /\ lastOp.force
    /\ ~lastOp.raised

\* C5 as claimed: after build_vector_store(force_rebuild=True) returns, no entry
\* of before the call is left and the entry count equals the number of corpus
\* documents.
C5_CountEqualsDocuments ==
    ForcedBuildReturned =>
        /\ ~lastOp.keptEntry
        /\ document_count(persistDir) = lastOp.csvDocs

\* C5 as amended: after build_vector_store(force_rebuild=True) returns, no entry
\* of before the call is left and the entry count equals the number of chunks of
\* the corpus documents: at least the number of documents, and equal to it
\* exactly when no document is longer than chunk_size.
C5_CountEqualsChunks ==
    ForcedBuildReturned =>
        /\ ~lastOp.keptEntry
        /\ document_count(persistDir) = SumChunks(corpusCsv.docs)
        /\ document_count(persistDir) >= lastOp.csvDocs
        /\ (document_count(persistDir) = lastOp.csvDocs
              <=> \A i \in 1..Len(corpusCsv.docs) : corpusCsv.docs[i] <= chunk_size)

\* a forced rebuild over a valid index, with a document longer than chunk_size
C5_Witness ==
    /\ ForcedBuildReturned
    /\ lastOp.dirBefore = "valid"
    /\ lastOp.deletedDir
    /\ document_count(persistDir) > lastOp.csvDocs

\* C6: when the persisted index fails to load, build_vector_store(force_rebuild=
\* False) raises nothing: it deletes the directory, rebuilds from the corpus CSV
\* and returns a Ready index (the corpus CSV being readable, the embedder working).
C6_CorruptIndexIsRebuilt ==
    (/\ lastOp.op = "build"
     /\ ~lastOp.force
     /\ lastOp.dirBefore = "corrupt"
     /\ lastOp.modelBefore # "unsupported"
     /\ corpusCsv.exists
     /\ embedderWorks) =>
        /\ ~lastOp.raised
        /\ ~lastOp.reused
        /\ lastOp.deletedDir
        /\ lastOp.readCsv
        /\ manager.vector_store = "chroma"
        /\ persistDir.state = "valid"
        /\ EntryKeys(persistDir) = chunk_documents(create_documents(corpusCsv))

\* a corrupt index was rebuilt by a build that was not forced
C6_Witness ==
    /\ lastOp.op = "build"
    /\ ~lastOp.force
    /\ lastOp.dirBefore = "corrupt"
    /\ ~lastOp.raised
    /\ persistDir.state = "valid"
    /\ persistDir.entries # {}

\* C7: build_vector_store(force_rebuild=False, incremental_update=True) on a
\* loadable index returns a Ready index without raising; it rebuilds when the
\* stored hash differs from the hash of the corpus, after which the stored hash is
\* the hash of the corpus, and reuses the index when the two are equal.
C7_IncrementalUpdate ==
    (LoadableBuild /\ lastOp.incremental_update /\ corpusCsv.exists) =>
        /\ ~lastOp.raised
        /\ manager.vector_store = "chroma"
        /\ IF lastOp.hashBefore # _get_csv_hash(corpusCsv)
           THEN /\ ~lastOp.reused
                /\ _get_stored_hash(persistDir) = _get_csv_hash(corpusCsv)
           ELSE lastOp.reused

\* C8: a manager never holds a loaded index with an entry embedded by another
\* provider than the manager's own.
C8_NoProviderMismatch ==
    (manager # Null /\ manager.vector_store = "chroma") =>
        \A e \in persistDir.entries : e.provider = manager.embeddings

\* C9: initialize_embeddings with embedding_model 'openai' takes the OpenAI
\* provider when the credential is present and the HuggingFace provider when it
\* is absent, without raising; embedding_model then names the provider taken, and
\* neither changes again for that manager.
C9_ProviderSelection ==
    [][/\ (lastOp'.op = "initialize_embeddings" /\ lastOp'.modelBefore = "openai") =>
            /\ ~lastOp'.raised
            /\ manager'.embeddings =
                   (IF OPENAI_API_KEY THEN "openai" ELSE "huggingface")
            /\ manager'.embedding_model = manager'.embeddings
       /\ (manager # Null /\ manager.embeddings # None /\ manager' # Null
           /\ lastOp'.op # "new_manager") =>
            /\ manager'.embeddings = manager.embeddings
            /\ manager'.embedding_model = manager.embedding_model
      ]_vars

\* the fallback was taken: no credential, model 'openai', HuggingFace selected
C9_Witness ==
    /\ lastOp.op = "initialize_embeddings"
    /\ lastOp.modelBefore = "openai"
    /\ ~OPENAI_API_KEY
    /\ manager.embeddings = "huggingface"

\* a search through the manager's handle meets a working embedder, a readable
\* index and no entry of another provider
SearchCanAnswer ==
    /\ embedderWorks
    /\ persistDir.state = "valid"
    /\ \A e \in persistDir.entries : e.provider = manager.embeddings

\* C12: similarity_search on a manager that holds no index (no build or load has
\* succeeded on it) raises the not-ready error and changes nothing; once a
\* build_vector_store has returned the manager holds an index for good, and a
\* search never raises that error again: it returns whenever the embedder and
\* the persisted index answer.
C12_SearchBeforeReadyFails ==
    [][/\ lastOp'.op = "similarity_search" =>
            IF manager.vector_store = None
            THEN /\ lastOp'.raised
                 /\ lastOp'.error = ErrNotReady
                 /\ manager' = manager
                 /\ persistDir' = persistDir
            ELSE /\ lastOp'.error # ErrNotReady
                 /\ SearchCanAnswer => ~lastOp'.raised
       /\ (lastOp'.op = "build" /\ ~lastOp'.raised) => manager'.vector_store # None
       /\ (manager # Null /\ manager.vector_store # None
           /\ lastOp'.op \notin {"new_manager", "new_process"}) =>
              manager'.vector_store # None
      ]_vars

\* a search on a new manager raised although a readable index is persisted, and
\* the manager still holds no index
C12_Witness ==
    /\ lastOp.op = "similarity_search"
    /\ lastOp.error = ErrNotReady
    /\ persistDir.state = "valid"
    /\ persistDir.entries # {}
    /\ manager.vector_store = None

\* the smaller of two numbers
Min(a, b) == IF a <= b THEN a ELSE b

\* the entries of a sequence of search results
HitSet(hits) == {hits[i] : i \in 1..Len(hits)}

\* C13: a similarity_search(query, k) that returns on a manager holding an index
\* returns min(k, entry count) distinct entries of the index, so at most k, the
\* more similar first, and no entry left out is more similar than one returned;
\* on an index without entries it returns the empty list and does not raise
\* (the embedder answering).
C13_SearchReturnsTopK ==
    (lastOp.op = "similarity_search" /\ manager.vector_store # None) =>
        /\ ~lastOp.raised =>
              LET q == lastOp.out.query
                  hits == lastOp.out.hits
              IN  /\ Len(hits) <= lastOp.out.k
                  /\ Len(hits) = Min(lastOp.out.k, document_count(persistDir))
                  /\ HitSet(hits) \subseteq persistDir.entries
                  /\ Cardinality(HitSet(hits)) = Len(hits)
                  /\ \A i \in 1..Len(hits) : \A j \in i..Len(hits) :
                         Similarity(q, hits[i]) >= Similarity(q, hits[j])
                  /\ \A e \in persistDir.entries \ HitSet(hits) :
                         \A i \in 1..Len(hits) :
                            Similarity(q, hits[i]) >= Similarity(q, e)
        /\ (SearchCanAnswer /\ persistDir.entries = {}) =>
              (~lastOp.raised /\ lastOp.out.hits = <<>>)

\* a search for 3 results over an index of more entries returned 3 of them, not
\* all equally similar
C13_Witness ==
    /\ lastOp.op = "similarity_search"
    /\ ~lastOp.raised
    /\ lastOp.out.k = 3
    /\ Len(lastOp.out.hits) = 3
    /\ document_count(persistDir) > 3
    /\ Similarity(lastOp.out.query, lastOp.out.hits[1])
           > Similarity(lastOp.out.query, lastOp.out.hits[3])

\* the identifiers (metadata anime_id) of a set of entries
Ids(entries) == {e.anime_id : e \in entries}

\* C14: the identifier of an entry is the 0-based position of its document in
\* the corpus export the index was built over.  Right after a build over n
\* documents the identifiers are 0..n-1 and document i has all its chunks under
\* identifier i; the identifiers persisted are always 0..n-1 for some n, and the
\* entries a search returns carry identifiers among them.
C14_IdsAreRowPositions ==
    /\ (lastOp.op = "build" /\ ~lastOp.raised /\ ~lastOp.reused) =>
          /\ Ids(persistDir.entries) = 0..(Len(corpusCsv.docs) - 1)
          /\ \A i \in 1..Len(corpusCsv.docs) :
                 {e.chunk : e \in {f \in persistDir.entries : f.anime_id = i - 1}}
                     = 1..NumChunks(corpusCsv.docs[i])
    /\ \E n \in 0..MaxDocs :
          /\ Ids(persistDir.entries) = 0..(n - 1)
          /\ (lastOp.op = "similarity_search" /\ ~lastOp.raised) =>
                 Ids(HitSet(lastOp.out.hits)) \subseteq 0..(n - 1)

\* a search returned two chunks of one document, under one identifier, and an
\* entry of another document
C14_Witness ==
    /\ lastOp.op = "similarity_search"
    /\ ~lastOp.raised
    /\ \E i, j \in 1..Len(lastOp.out.hits) :
          /\ lastOp.out.hits[i].anime_id = lastOp.out.hits[j].anime_id
          /\ lastOp.out.hits[i].chunk # lastOp.out.hits[j].chunk
    /\ Cardinality(Ids(HitSet(lastOp.out.hits))) > 1

\* the vector dimension of a provider's embedding model: text-embedding-ada-002
\* and all-MiniLM-L6-v2
KnownDimension(provider) == IF provider = "openai" THEN "1536" ELSE "384"

\* C20: get_collection_info on a manager holding a readable index returns the
\* entry count, the persist directory and, as embedding_dimension, the vector
\* dimension of the manager's provider or 'unknown'; on a manager that fell
\* back to HuggingFace for want of the credential it is that provider's
\* dimension.
C20_InfoReportsDimension ==
    (lastOp.op = "get_collection_info" /\ ~lastOp.raised) =>
        /\ lastOp.out.document_count = Cardinality(persistDir.entries)
        /\ lastOp.out.persist_directory = PersistDirectory
        /\ lastOp.out.embedding_dimension
               \in {KnownDimension(manager.embeddings), "unknown"}
        /\ (~OPENAI_API_KEY /\ manager.embeddings = "huggingface") =>
               lastOp.out.embedding_dimension = KnownDimension("huggingface")


\* ------------------------------------------------ the corpus builder's claims
\* clean_data has just returned the cleaned frame
CleanDataReturned == lastOp.op = "_remove_duplicates" /\ loader.pc = "idle"
\* the raw row a cleaned row was made from: the row under the same index label
RawRow(row) == loader.df.rows[row.id + 1]
\* the raw column col, coerced to numbers
Coerced(col) == [k \in 1..Len(loader.df.rows) |-> to_numeric(loader.df.rows[k].cells[col])]

\* C21: after clean_data, no cleaned row has a missing year, rating or votes,
\* and a rating or votes value that was missing or not a number in the raw
\* table equals the median of the column's coerced values, whatever the table
\* (also one whose column holds no number at all).
C21_NumericFieldsFilled ==
    CleanDataReturned =>
        \A i \in 1..Len(loader.cleaned_df.rows) :
            /\ \A col \in {"year", "rating", "votes"} :
                   IsNum(loader.cleaned_df.rows[i].cells[col])
            /\ \A col \in {"rating", "votes"} :
                   ~IsNum(to_numeric(RawRow(loader.cleaned_df.rows[i]).cells[col]))
                       => loader.cleaned_df.rows[i].cells[col] = median(Coerced(col))

\* the raw text cell is missing, or what is left of it after the characters
\* outside word characters, whitespace and -.,!? are stripped is blank
MissingOrEmptyText(c) ==
    \/ ~IsStr(c)
    \/ \A k \in 1..Len(c.str) :
           c.str[k] \notin WordChars \cup KeptPunctuation

\* C22: after clean_data, a text field whose raw value was missing, or whose
\* normalized text is empty, is exactly "Unknown" with a capital U.
C22_MissingTextIsUnknown ==
    CleanDataReturned =>
        \A i \in 1..Len(loader.cleaned_df.rows) : \A col \in {"title", "genre"} :
            MissingOrEmptyText(RawRow(loader.cleaned_df.rows[i]).cells[col])
                => loader.cleaned_df.rows[i].cells[col] = Str(Unknown)

\* the year written in a raw title as a parenthesized group of four digits
TitleYear(c) == IF IsStr(c) THEN to_numeric(str_extract(c.str)) ELSE NaN

\* C23: after clean_data, the year of a row whose raw title holds a
\* parenthesized four-digit group is that number, and the year of any other
\* row is the median of the years the titles of the table hold.
C23_YearFromTitle ==
    CleanDataReturned =>
        \A i \in 1..Len(loader.cleaned_df.rows) :
            LET year == TitleYear(RawRow(loader.cleaned_df.rows[i]).cells["title"])
            IN  loader.cleaned_df.rows[i].cells["year"] =
                    IF IsNum(year) THEN year
                    ELSE median([k \in 1..Len(loader.df.rows) |->
                                    TitleYear(loader.df.rows[k].cells["title"])])

\* two rows are equal on every column except genre_list
EqualExceptGenreList(r1, r2) ==
    \A col \in DOMAIN r1.cells \ {"genre_list"} : r1.cells[col] = r2.cells[col]
\* the positions of the rows of a frame that equal no earlier row
FirstOfTheirKind(f) ==
    {i \in 1..Len(f.rows) : \A j \in 1..(i - 1) : ~EqualExceptGenreList(f.rows[j], f.rows[i])}

\* C24: duplicate removal drops exactly the rows that equal an earlier row on
\* every column except genre_list: the rows kept are the first occurrences,
\* in their order and with their columns, and removing duplicates once more
\* changes nothing.
C24_FirstOccurrencesKept ==
    [][lastOp'.op = "_remove_duplicates" =>
          /\ loader'.cleaned_df.columns = loader.cleaned_df.columns
          /\ Len(loader'.cleaned_df.rows) = Cardinality(FirstOfTheirKind(loader.cleaned_df))
          /\ \A k \in 1..Len(loader'.cleaned_df.rows) :
                 \E i \in FirstOfTheirKind(loader.cleaned_df) :
                     /\ loader'.cleaned_df.rows[k] = loader.cleaned_df.rows[i]
                     /\ Cardinality({j \in FirstOfTheirKind(loader.cleaned_df) : j < i}) = k - 1
          /\ (lastOp.op = "_remove_duplicates"
                 => loader'.cleaned_df = loader.cleaned_df)]_vars
\* two raw rows written differently cleaned to the same record, and the
\* second was dropped
C24_Witness ==
    /\ CleanDataReturned
    /\ Len(loader.df.rows) = 2
    /\ loader.df.rows[1].cells # loader.df.rows[2].cells
    /\ Len(loader.cleaned_df.rows) = 1
    /\ loader.cleaned_df.rows[1].id = 0

\* the combined_info column has just been made
CombinedInfoMade == lastOp.op = "_create_feature_combinations" /\ ~lastOp.raised
\* the columns clean_data derives
DerivedColumns ==
    {"year", "decade", "genre_count", "rating_category", "genre_encoded", "genre_list"}
\* the text of a row holds a 'column: value' pair for every column but
\* combined_info whose value is neither missing nor blank
TextHoldsEveryValue(row) ==
    \A col \in DOMAIN row.cells \ {"combined_info"} :
        (notna(row.cells[col]) /\ ~blank(row.cells[col]))
            => \E j \in 1..Len(row.cells["combined_info"].text) :
                   row.cells["combined_info"].text[j] = [col |-> col, value |-> row.cells[col]]

\* C25: the combined_info text is generated in the last step of clean_data,
\* after duplicate removal too, and holds a 'field: value' pair for every
\* derived column that is not empty for the row.
C25_CombinedInfoIsLastStep ==
    [][CombinedInfoMade' /\ lastOp'.op # lastOp.op =>
          /\ loader'.pc = "idle"
          /\ \A i \in 1..Len(loader'.cleaned_df.rows) :
                 TextHoldsEveryValue(loader'.cleaned_df.rows[i])]_vars

\* C25 as the code has it: the combined_info text is generated once every
\* derived column exists and holds a 'field: value' pair for every column,
\* derived ones included, that is not empty for the row; the one step that
\* follows is duplicate removal, which adds no column and changes no row it
\* keeps.
C25_CombinedInfoAfterDerivedColumns ==
    [][/\ (CombinedInfoMade' /\ lastOp'.op # lastOp.op =>
              /\ loader'.pc = "_remove_duplicates"
              /\ \A col \in DerivedColumns : HasColumn(loader'.cleaned_df, col)
              /\ \A i \in 1..Len(loader'.cleaned_df.rows) :
                     TextHoldsEveryValue(loader'.cleaned_df.rows[i]))
       /\ (loader.pc = "_remove_duplicates" /\ loader' # loader =>
              /\ lastOp'.op = "_remove_duplicates"
              /\ loader'.pc = "idle"
              /\ loader'.cleaned_df.columns = loader.cleaned_df.columns
              /\ \A k \in 1..Len(loader'.cleaned_df.rows) :
                     /\ TextHoldsEveryValue(loader'.cleaned_df.rows[k])
                     /\ \E i \in 1..Len(loader.cleaned_df.rows) :
                            loader'.cleaned_df.rows[k] = loader.cleaned_df.rows[i])]_vars
\* a text with the pairs of derived columns, of a row whose year is missing
C25_Witness ==
    /\ CombinedInfoMade
    /\ loader.pc = "_remove_duplicates"
    /\ Len(loader.cleaned_df.rows) > 0
    /\ \E j \in 1..Len(loader.cleaned_df.rows[1].cells["combined_info"].text) :
           loader.cleaned_df.rows[1].cells["combined_info"].text[j].col = "rating_category"
    /\ ~IsNum(loader.cleaned_df.rows[1].cells["year"])

\* the raw data file is missing, cannot be read, or holds no record
NoRecords(file) ==
    \/ ~file.exists
    \/ "broken" \in DOMAIN file
    \/ Len(file.docs) = 0

\* C26: the data loading stage fails exactly when the raw data file is missing,
\* unreadable or empty (no records), never because of a row; when it fails it
\* writes no corpus export and leaves the data_loading flag false.
C26_LoadFailsOnBadSourceOnly ==
    [][lastOp'.op = "_run_data_loading_step" =>
          /\ lastOp'.raised <=> NoRecords(rawData)
          /\ lastOp'.raised =>
                 /\ corpusCsv' = corpusCsv
                 /\ ~pipeline_status'.data_loading]_vars

\* ------------------------------------------- the pipeline's claims, continued
\* run_complete_pipeline has just returned
RunReturned == lastOp.op \in StageSet /\ pc = "idle"

\* C27: run_complete_pipeline hands back its results whatever a stage raised,
\* with pipeline_status 'completed' or 'failed', never 'running'; it is
\* 'completed' exactly when steps_completed is the three stages and errors is
\* empty, and then the three stage flags are true, overall_status is
\* 'completed' and the built-in test query was answered by an initialized
\* engine over a loadable index.
C27_RunReturnsCompletedOrFailed ==
    /\ (lastOp.op \in StageSet /\ lastOp.raised) => pc = "idle"
    /\ RunReturned =>
        /\ results.pipeline_status \in {"completed", "failed"}
        /\ results.pipeline_status = "completed"
               <=> (results.steps_completed = Stages /\ results.errors = <<>>)
        /\ results.pipeline_status = "completed" =>
               /\ pipeline_status.data_loading
               /\ pipeline_status.vector_store_creation
               /\ pipeline_status.recommender_initialization
               /\ pipeline_status.overall_status = "completed"
               /\ lastOp.op = "recommender_initialization"
               /\ ~lastOp.raised
               /\ EngineInitialized
               /\ embedderWorks /\ generatorWorks /\ persistDir.state = "valid"
\* a run returned 'completed' after its three stages
C27_Witness ==
    /\ RunReturned
    /\ results.pipeline_status = "completed"
    /\ results.steps_completed = Stages

\* C28: in every state of a pipeline, recommender_initialization implies
\* vector_store_creation, and vector_store_creation implies data_loading.
C28_FlagsFormAChain ==
    /\ pipeline_status.recommender_initialization => pipeline_status.vector_store_creation
    /\ pipeline_status.vector_store_creation => pipeline_status.data_loading

\* C29: the engine's components are set all or none: the index handle, the
\* generator, the movie data and the retrieval chain are all there or all
\* missing, also after initialize_components raised part-way.
C29_EngineAllOrNothing ==
    recommender # Null =>
        \/ /\ recommender.vector_store # None
           /\ recommender.llm # None
           /\ recommender.movie_data # None
           /\ recommender.retrieval_chain # None
        \/ /\ recommender.vector_store = None
           /\ recommender.llm = None
           /\ recommender.movie_data = None
           /\ recommender.retrieval_chain = None

\* ------------------------------------- the index manager's claims, continued
\* C30: when build_vector_store raises and a loadable persisted index existed
\* before the call, the index is still there afterwards, as it was.
C30_FailedBuildKeepsIndex ==
    (lastOp.op = "build" /\ lastOp.raised /\ lastOp.dirBefore = "valid") =>
        /\ persistDir.state = "valid"
        /\ lastOp.dirUnchanged

====
